---- MODULE Spec2Model ----
(***************************************************************************)
(* Accessed-storage analysis (lib/SILOptimizer/Analysis/                   *)
(* AccessedStorageAnalysis.cpp): per-function summaries of dynamically     *)
(* enforced accesses, their merge along call edges and the conflict query. *)
(***************************************************************************)
EXTENDS Integers, Sequences, FiniteSets, TLC

(***************************************************************************)
(* Bounds of the model.                                                    *)
(***************************************************************************)
\* number of mutating calls (scan, summarize, merge) in one behaviour
MaxOps == 3

(***************************************************************************)
(* Functions, SIL values and storage identities.                           *)
(***************************************************************************)
\* The program under analysis: f and g have bodies, e is an external
\* declaration; g and e take two parameters; a call passes at most one
\* argument directly, a second one is captured by a partial_apply.
Funcs == {"f", "g", "e"}

ParamIndices == 0 .. 1

ArgCounts == 0 .. 1

isDefinition(F) == F \in {"f", "g"}

DefFuncs == {F \in Funcs : isDefinition(F)}

Read == "Read"
Modify == "Modify"
None == "None"

AccessKinds == {Read, Modify}

OptAccessKinds == {None, Read, Modify}

\* The invalid SILValue, SILValue().
NoValue == [fn |-> "", op |-> "none", n |-> 0, proj |-> 0]

\* SILFunctionArgument number i of function F.
ArgValue(F, i) == [fn |-> F, op |-> "arg", n |-> i, proj |-> 0]

AllocStack(F) == [fn |-> F, op |-> "alloc_stack", n |-> 0, proj |-> 0]

AllocBox(F) == [fn |-> F, op |-> "alloc_box", n |-> 0, proj |-> 0]

GlobalAddr(F, g) == [fn |-> F, op |-> "global_addr", n |-> g, proj |-> 0]

\* ref_element_addr of field p of the object held in argument i of F.
RefElementAddr(F, i, p) == [fn |-> F, op |-> "ref_element_addr", n |-> i, proj |-> p]

\* ref_element_addr of field p of an object allocated in F (alloc_ref).
RefElementAddrLocal(F, p) == [fn |-> F, op |-> "ref_element_addr_local", n |-> 0, proj |-> p]

AllocRef(F) == [fn |-> F, op |-> "alloc_ref", n |-> 0, proj |-> 0]

\* The address produced by a begin_access of F: an access made through it is
\* nested in that access.
NestedAddr(F) == [fn |-> F, op |-> "begin_access", n |-> 0, proj |-> 0]

\* An address whose base cannot be classified (e.g. a raw pointer).
UnknownAddr(F) == [fn |-> F, op |-> "pointer_to_address", n |-> 0, proj |-> 0]

\* AccessedStorage() : the invalid storage object (operator bool is false).
InvalidStorage == [kind |-> "Invalid", value |-> NoValue, index |-> 0, proj |-> 0]

BoxStorage(v) == [kind |-> "Box", value |-> v, index |-> 0, proj |-> 0]

StackStorage(v) == [kind |-> "Stack", value |-> v, index |-> 0, proj |-> 0]

GlobalStorage(g) == [kind |-> "Global", value |-> NoValue, index |-> g, proj |-> 0]

\* AccessedStorage(object, projection)
ClassStorage(obj, p) == [kind |-> "Class", value |-> obj, index |-> 0, proj |-> p]

ArgumentStorage(i) == [kind |-> "Argument", value |-> NoValue, index |-> i, proj |-> 0]

NestedStorage(v) == [kind |-> "Nested", value |-> v, index |-> 0, proj |-> 0]

UnidentifiedStorage(v) == [kind |-> "Unidentified", value |-> v, index |-> 0, proj |-> 0]

\* operator bool of AccessedStorage
isValid(storage) == storage.kind # "Invalid"

\* The base address resolved to the storage that owns it.
findAccessedStorageOrigin(v) ==
  CASE v.op = "arg" -> ArgumentStorage(v.n)
    [] v.op = "alloc_stack" -> StackStorage(v)
    [] v.op = "alloc_box" -> BoxStorage(v)
    [] v.op = "global_addr" -> GlobalStorage(v.n)
    [] v.op = "ref_element_addr" -> ClassStorage(ArgValue(v.fn, v.n), v.proj)
    [] v.op = "ref_element_addr_local" -> ClassStorage(AllocRef(v.fn), v.proj)
    [] v.op = "begin_access" -> NestedStorage(v)
    [] OTHER -> UnidentifiedStorage(v)

\* Two storage identities are provably distinct.
isDistinctFrom(a, b) ==
  IF a.kind = "Unidentified" \/ b.kind = "Unidentified" THEN FALSE
  ELSE IF a.kind # b.kind THEN TRUE
  ELSE a.value # b.value \/ a.index # b.index

\* Two access kinds conflict iff at least one of them is a Modify.
accessKindMayConflict(a, b) == ~(a = Read /\ b = Read)

(***************************************************************************)
(* StorageAccessInfo and the joins of access kinds.                        *)
(***************************************************************************)
StorageAccessInfo == [accessKind : AccessKinds, noNestedConflict : BOOLEAN]

\* updateAccessKind assigning RHS whenever the two kinds differ
updateAccessKind_assign(LHS, RHS) ==
  IF LHS # RHS
  THEN [LHS |-> RHS, changed |-> TRUE]
  ELSE [LHS |-> LHS, changed |-> FALSE]

\* updateAccessKind that upgrades Read to Modify without reporting it
updateAccessKind_silent(LHS, RHS) ==
  IF LHS = Read /\ RHS = Modify
  THEN [LHS |-> RHS, changed |-> FALSE]
  ELSE [LHS |-> LHS, changed |-> FALSE]

\* updateAccessKind that sets changed for every Modify it is given
updateAccessKind_always(LHS, RHS) ==
  IF RHS = Modify
  THEN [LHS |-> RHS, changed |-> TRUE]
  ELSE [LHS |-> LHS, changed |-> FALSE]

\* static bool updateAccessKind(SILAccessKind &LHS, SILAccessKind RHS)
updateAccessKind(LHS, RHS) ==
  IF LHS = Read /\ RHS = Modify
  THEN [LHS |-> RHS, changed |-> TRUE]
  ELSE [LHS |-> LHS, changed |-> FALSE]

\* updateOptionalAccessKind that assigns RHS to a slot that is already set
updateOptionalAccessKind_assign(LHS, RHS) ==
  IF RHS = None THEN [LHS |-> LHS, changed |-> FALSE]
  ELSE [LHS |-> RHS, changed |-> LHS # RHS]

\* static bool updateOptionalAccessKind(Optional<> &LHS, Optional<> RHS)
updateOptionalAccessKind(LHS, RHS) ==
  IF RHS = None THEN [LHS |-> LHS, changed |-> FALSE]
  ELSE IF LHS = None THEN [LHS |-> RHS, changed |-> TRUE]
  ELSE updateAccessKind(LHS, RHS)

\* StorageAccessInfo::mergeFrom that clears the flag without reporting it
StorageAccessInfo_mergeFrom_quiet(self, RHS) ==
  LET k == IF self.accessKind = Read /\ RHS.accessKind = Modify
           THEN [LHS |-> RHS.accessKind, changed |-> TRUE]
           ELSE [LHS |-> self.accessKind, changed |-> FALSE]
      lost == self.noNestedConflict /\ ~RHS.noNestedConflict
  IN [info |-> [accessKind |-> k.LHS,
                noNestedConflict |-> IF lost THEN FALSE ELSE self.noNestedConflict],
      changed |-> k.changed]

\* StorageAccessInfo::mergeFrom that copies the flag of RHS
StorageAccessInfo_mergeFrom_copy(self, RHS) ==
  LET k == IF self.accessKind = Read /\ RHS.accessKind = Modify
           THEN [LHS |-> RHS.accessKind, changed |-> TRUE]
           ELSE [LHS |-> self.accessKind, changed |-> FALSE]
      differs == self.noNestedConflict # RHS.noNestedConflict
  IN [info |-> [accessKind |-> k.LHS, noNestedConflict |-> RHS.noNestedConflict],
      changed |-> (k.changed \/ differs)]

\* StorageAccessInfo::mergeFrom that rewrites a set flag from RHS and reports
\* a change whenever it does
StorageAccessInfo_mergeFrom_eager(self, RHS) ==
  LET k == updateAccessKind(self.accessKind, RHS.accessKind)
  IN [info |-> [accessKind |-> k.LHS,
                noNestedConflict |-> IF self.noNestedConflict THEN RHS.noNestedConflict
                                     ELSE FALSE],
      changed |-> (k.changed \/ self.noNestedConflict)]

\* bool StorageAccessInfo::mergeFrom(const StorageAccessInfo &RHS)
StorageAccessInfo_mergeFrom(self, RHS) ==
  LET k == updateAccessKind(self.accessKind, RHS.accessKind)
      lost == self.noNestedConflict /\ ~RHS.noNestedConflict
  IN [info |-> [accessKind |-> k.LHS,
                noNestedConflict |-> IF lost THEN FALSE ELSE self.noNestedConflict],
      changed |-> (k.changed \/ lost)]

(***************************************************************************)
(* FunctionAccessedStorage: storageAccessMap and unidentifiedAccess.       *)
(***************************************************************************)
\* A freshly constructed FunctionAccessedStorage.
EmptySummary == [storageAccessMap |-> << >>, unidentifiedAccess |-> None]

\* DenseMap::try_emplace followed by nothing: the map with one more key.
MapInsert(map, key, info) ==
  [k \in (DOMAIN map) \cup {key} |-> IF k = key THEN info ELSE map[k]]

\* void setWorstEffects()
setWorstEffects(S) == [S EXCEPT !.unidentifiedAccess = Modify]

\* The side-effect signature of F: ok is the result of
\* FunctionSideEffects::summarizeFunction, the rest are its effects.
Effects == [mayRead : BOOLEAN, mayWrite : BOOLEAN]

RECURSIVE OrEffects(_, _, _)
\* the loop over getParameterEffects(): mayRead |= ..., mayWrite |= ...
OrEffects(acc, params, i) ==
  IF i > Len(params) THEN acc
  ELSE OrEffects([mayRead |-> acc.mayRead \/ params[i].mayRead,
                  mayWrite |-> acc.mayWrite \/ params[i].mayWrite], params, i + 1)

\* summarizeFunction looking at the global effects only
summarizeFunction_globalOnly(S, F, sig) ==
  IF isDefinition(F) THEN [summary |-> S, ret |-> FALSE]
  ELSE IF ~sig.ok THEN [summary |-> setWorstEffects(S), ret |-> TRUE]
  ELSE [summary |-> IF sig.global.mayWrite THEN [S EXCEPT !.unidentifiedAccess = Modify]
                    ELSE IF sig.global.mayRead THEN [S EXCEPT !.unidentifiedAccess = Read]
                    ELSE S,
        ret |-> TRUE]

\* summarizeFunction without the early return for definitions
summarizeFunction_noEarlyReturn(S, F, sig) ==
  IF ~sig.ok THEN [summary |-> setWorstEffects(S), ret |-> TRUE]
  ELSE LET m == OrEffects(sig.global, sig.params, 1)
       IN [summary |-> IF m.mayWrite THEN [S EXCEPT !.unidentifiedAccess = Modify]
                       ELSE IF m.mayRead THEN [S EXCEPT !.unidentifiedAccess = Read]
                       ELSE S,
           ret |-> TRUE]

\* bool FunctionAccessedStorage::summarizeFunction(SILFunction *F)
summarizeFunction(S, F, sig) ==
  IF isDefinition(F) THEN [summary |-> S, ret |-> FALSE]
  ELSE IF ~sig.ok THEN [summary |-> setWorstEffects(S), ret |-> TRUE]
  ELSE LET m == OrEffects(sig.global, sig.params, 1)
       IN [summary |-> IF m.mayWrite THEN [S EXCEPT !.unidentifiedAccess = Modify]
                       ELSE IF m.mayRead THEN [S EXCEPT !.unidentifiedAccess = Read]
                       ELSE S,
           ret |-> TRUE]

\* updateUnidentifiedAccess that assigns the slot and always reports a change
updateUnidentifiedAccess_assign(S, accessKind) ==
  [summary |-> [S EXCEPT !.unidentifiedAccess = accessKind], changed |-> TRUE]

\* updateUnidentifiedAccess that takes the kind it is given when it differs
updateUnidentifiedAccess_latest(S, accessKind) ==
  [summary |-> [S EXCEPT !.unidentifiedAccess = accessKind],
   changed |-> S.unidentifiedAccess # accessKind]

\* bool FunctionAccessedStorage::updateUnidentifiedAccess(SILAccessKind)
updateUnidentifiedAccess(S, accessKind) ==
  IF S.unidentifiedAccess = None
  THEN [summary |-> [S EXCEPT !.unidentifiedAccess = accessKind], changed |-> TRUE]
  ELSE LET k == updateAccessKind(S.unidentifiedAccess, accessKind)
       IN [summary |-> [S EXCEPT !.unidentifiedAccess = k.LHS], changed |-> k.changed]

\* One call of StorageAccessInfo::mergeFrom, as it is logged by the model.
InfoMerge(lhs, rhs, r) == [lhs |-> lhs, rhs |-> rhs, out |-> r.info, changed |-> r.changed]

RECURSIVE mergeLoop_lastWins(_, _, _)
\* the loop that replaces the record of a key it finds by the incoming record
mergeLoop_lastWins(acc, otherAccesses, i) ==
  IF i > Len(otherAccesses) THEN acc
  ELSE
    LET storage == otherAccesses[i].storage
        info == otherAccesses[i].info
        S == acc.summary
    IN IF ~isValid(storage) THEN mergeLoop_lastWins(acc, otherAccesses, i + 1)
       ELSE IF storage.kind = "Unidentified"
       THEN LET u == updateUnidentifiedAccess(S, info.accessKind)
            IN mergeLoop_lastWins([acc EXCEPT !.summary = u.summary,
                                              !.changed = acc.changed \/ u.changed],
                                  otherAccesses, i + 1)
       ELSE IF storage \notin DOMAIN S.storageAccessMap
       THEN mergeLoop_lastWins([acc EXCEPT
                         !.summary.storageAccessMap = MapInsert(S.storageAccessMap, storage, info),
                         !.changed = TRUE],
                      otherAccesses, i + 1)
       ELSE mergeLoop_lastWins([acc EXCEPT
                         !.summary.storageAccessMap[storage] = info,
                         !.changed = acc.changed \/ S.storageAccessMap[storage] # info],
                      otherAccesses, i + 1)

RECURSIVE mergeLoop_insertOnly(_, _, _)
\* the loop that inserts new keys and leaves the record of a key it finds
mergeLoop_insertOnly(acc, otherAccesses, i) ==
  IF i > Len(otherAccesses) THEN acc
  ELSE
    LET storage == otherAccesses[i].storage
        info == otherAccesses[i].info
        S == acc.summary
    IN IF ~isValid(storage) THEN mergeLoop_insertOnly(acc, otherAccesses, i + 1)
       ELSE IF storage.kind = "Unidentified"
       THEN LET u == updateUnidentifiedAccess(S, info.accessKind)
            IN mergeLoop_insertOnly([acc EXCEPT !.summary = u.summary,
                                                !.changed = acc.changed \/ u.changed],
                                    otherAccesses, i + 1)
       ELSE IF storage \notin DOMAIN S.storageAccessMap
       THEN mergeLoop_insertOnly([acc EXCEPT
                         !.summary.storageAccessMap = MapInsert(S.storageAccessMap, storage, info),
                         !.changed = TRUE],
                      otherAccesses, i + 1)
       ELSE mergeLoop_insertOnly(acc, otherAccesses, i + 1)

RECURSIVE mergeLoop(_, _, _)
\* The loop of mergeAccesses over the copied entries; each entry carries its
\* key in other, the already transformed storage and the copied record.
\* acc = [summary, changed, merges].
mergeLoop(acc, otherAccesses, i) ==
  IF i > Len(otherAccesses) THEN acc
  ELSE
    LET storage == otherAccesses[i].storage
        info == otherAccesses[i].info
        S == acc.summary
    IN IF ~isValid(storage) THEN mergeLoop(acc, otherAccesses, i + 1)
       ELSE IF storage.kind = "Unidentified"
       THEN LET u == updateUnidentifiedAccess(S, info.accessKind)
            IN mergeLoop([acc EXCEPT !.summary = u.summary,
                                     !.changed = acc.changed \/ u.changed],
                         otherAccesses, i + 1)
       ELSE IF storage \notin DOMAIN S.storageAccessMap
       THEN mergeLoop([acc EXCEPT
                         !.summary.storageAccessMap = MapInsert(S.storageAccessMap, storage, info),
                         !.changed = TRUE],
                      otherAccesses, i + 1)
       ELSE LET r == StorageAccessInfo_mergeFrom(S.storageAccessMap[storage], info)
            IN mergeLoop([acc EXCEPT
                            !.summary.storageAccessMap[storage] = r.info,
                            !.changed = acc.changed \/ r.changed,
                            !.merges = acc.merges \cup
                               {InfoMerge(S.storageAccessMap[storage], info, r)}],
                         otherAccesses, i + 1)

\* mergeAccesses whose final join assigns the changed flag instead of or-ing it
mergeAccesses_assignChanged(self, other, transformed, aliased) ==
  LET l == mergeLoop([summary |-> self, changed |-> FALSE, merges |-> {}], transformed, 1)
      otherUnidentified == IF aliased THEN l.summary.unidentifiedAccess
                           ELSE other.unidentifiedAccess
  IN IF otherUnidentified # None
     THEN LET u == updateUnidentifiedAccess(l.summary, otherUnidentified)
          IN [summary |-> u.summary, changed |-> u.changed, merges |-> l.merges]
     ELSE l

RECURSIVE mergeLoop_live(_, _, _)
\* the loop iterating the receiver's own map instead of a copy: the record of
\* an entry is read when the entry is reached
mergeLoop_live(acc, otherAccesses, i) ==
  IF i > Len(otherAccesses) THEN acc
  ELSE
    LET S == acc.summary
        live == [otherAccesses EXCEPT ![i].info =
                   IF otherAccesses[i].key \in DOMAIN S.storageAccessMap
                   THEN S.storageAccessMap[otherAccesses[i].key]
                   ELSE otherAccesses[i].info]
        one == mergeLoop(acc, SubSeq(live, i, i), 1)
    IN mergeLoop_live(one, otherAccesses, i + 1)

\* mergeAccesses that takes other's unidentifiedAccess only into an unset slot
mergeAccesses_keepSlot(self, other, transformed, aliased) ==
  LET l == mergeLoop([summary |-> self, changed |-> FALSE, merges |-> {}], transformed, 1)
      otherUnidentified == IF aliased THEN l.summary.unidentifiedAccess
                           ELSE other.unidentifiedAccess
  IN IF otherUnidentified # None /\ l.summary.unidentifiedAccess = None
     THEN [summary |-> [l.summary EXCEPT !.unidentifiedAccess = otherUnidentified],
           changed |-> TRUE, merges |-> l.merges]
     ELSE l

\* mergeAccesses without the temporary copy of other's entries
mergeAccesses_noCopy(self, other, transformed, aliased) ==
  LET start == [summary |-> self, changed |-> FALSE, merges |-> {}]
      l == IF aliased THEN mergeLoop_live(start, transformed, 1)
           ELSE mergeLoop(start, transformed, 1)
      otherUnidentified == IF aliased THEN l.summary.unidentifiedAccess
                           ELSE other.unidentifiedAccess
  IN IF otherUnidentified # None
     THEN LET u == updateUnidentifiedAccess(l.summary, otherUnidentified)
          IN [summary |-> u.summary, changed |-> l.changed \/ u.changed, merges |-> l.merges]
     ELSE l

\* bool FunctionAccessedStorage::mergeAccesses(other, transformStorage).
\* transformed is the copy of other's entries in iteration order with
\* transformStorage applied to each key; aliased says this == other, in which
\* case other.unidentifiedAccess is read after the loop has updated it.
mergeAccesses(self, other, transformed, aliased) ==
  LET l == mergeLoop([summary |-> self, changed |-> FALSE, merges |-> {}], transformed, 1)
      otherUnidentified == IF aliased THEN l.summary.unidentifiedAccess
                           ELSE other.unidentifiedAccess
  IN IF otherUnidentified # None
     THEN LET u == updateUnidentifiedAccess(l.summary, otherUnidentified)
          IN [summary |-> u.summary, changed |-> l.changed \/ u.changed, merges |-> l.merges]
     ELSE l

(***************************************************************************)
(* Call sites and the callee-to-caller transform.                          *)
(***************************************************************************)
\* A call without a partial_apply as its callee origin.
NoPAI == [present |-> FALSE, first |-> 0, args |-> << >>]

\* partial_apply capturing args, the first of which is the callee's
\* parameter number first (getCalleeArgIndexOfFirstAppliedArg).
PAI(first, args) == [present |-> TRUE, first |-> first, args |-> args]

\* FullApplySite: the direct arguments and the callee origin.
FullApply(callee, args, pai) == [callee |-> callee, args |-> args, pai |-> pai]

\* `unsigned` is 32 bits wide; a value is kept as two 16-bit halves
HalfWord == 65536

\* the 32-bit unsigned value of the integer n (n taken modulo 2^32)
Unsigned(n) == [hi |-> (n \div HalfWord) % HalfWord, lo |-> n % HalfWord]

\* a < b on 32-bit unsigned values
UnsignedLess(a, b) == a.hi < b.hi \/ (a.hi = b.hi /\ a.lo < b.lo)

\* getCallerArg that takes the distance between the two indices as the offset
getCallerArg_distance(fullApply, paramIndex) ==
  IF paramIndex < Len(fullApply.args) THEN fullApply.args[paramIndex + 1]
  ELSE IF ~fullApply.pai.present THEN NoValue
  ELSE LET appliedIndex == Unsigned(IF paramIndex < fullApply.pai.first
                                    THEN fullApply.pai.first - paramIndex
                                    ELSE paramIndex - fullApply.pai.first)
       IN IF UnsignedLess(appliedIndex, Unsigned(Len(fullApply.pai.args)))
          THEN fullApply.pai.args[appliedIndex.lo + 1]
          ELSE NoValue

\* getCallerArg that indexes the captured arguments by the parameter index
getCallerArg_noOffset(fullApply, paramIndex) ==
  IF paramIndex < Len(fullApply.args) THEN fullApply.args[paramIndex + 1]
  ELSE IF ~fullApply.pai.present THEN NoValue
  ELSE LET appliedIndex == Unsigned(paramIndex)
       IN IF UnsignedLess(appliedIndex, Unsigned(Len(fullApply.pai.args)))
          THEN fullApply.pai.args[appliedIndex.lo + 1]
          ELSE NoValue

\* static SILValue getCallerArg(FullApplySite fullApply, unsigned paramIndex)
getCallerArg(fullApply, paramIndex) ==
  IF paramIndex < Len(fullApply.args) THEN fullApply.args[paramIndex + 1]
  ELSE IF ~fullApply.pai.present THEN NoValue
  ELSE LET appliedIndex == Unsigned(paramIndex - fullApply.pai.first)
       IN IF UnsignedLess(appliedIndex, Unsigned(Len(fullApply.pai.args)))
          THEN fullApply.pai.args[appliedIndex.lo + 1]
          ELSE NoValue

\* llvm_unreachable("Unexpected nested access")
UnreachableStorage == [kind |-> "Unreachable", value |-> NoValue, index |-> 0, proj |-> 0]

\* transformCalleeStorage that treats local storage like a global
transformCalleeStorage_keepLocal(storage, fullApply) ==
  CASE storage.kind \in {"Box", "Stack", "Global"} -> storage
    [] storage.kind = "Class" ->
         IF storage.value.op = "arg"
         THEN LET argVal == getCallerArg(fullApply, storage.value.n)
              IN IF argVal # NoValue THEN ClassStorage(argVal, storage.proj)
                 ELSE storage
         ELSE storage
    [] storage.kind = "Argument" ->
         LET argVal == getCallerArg(fullApply, storage.index)
         IN IF argVal # NoValue THEN findAccessedStorageOrigin(argVal)
            ELSE UnidentifiedStorage(NoValue)
    [] storage.kind = "Nested" -> UnreachableStorage
    [] storage.kind = "Unidentified" -> storage

\* transformCalleeStorage that leaves a callee's Argument key as it is
transformCalleeStorage_keepArgument(storage, fullApply) ==
  CASE storage.kind \in {"Box", "Stack"} -> InvalidStorage
    [] storage.kind = "Global" -> storage
    [] storage.kind = "Class" ->
         IF storage.value.op = "arg"
         THEN LET argVal == getCallerArg(fullApply, storage.value.n)
              IN IF argVal # NoValue THEN ClassStorage(argVal, storage.proj)
                 ELSE storage
         ELSE storage
    [] storage.kind = "Argument" -> storage
    [] storage.kind = "Nested" -> UnreachableStorage
    [] storage.kind = "Unidentified" -> storage

\* transformCalleeStorage that drops an Argument key it cannot resolve
transformCalleeStorage_dropUnresolved(storage, fullApply) ==
  CASE storage.kind \in {"Box", "Stack"} -> InvalidStorage
    [] storage.kind = "Global" -> storage
    [] storage.kind = "Class" ->
         IF storage.value.op = "arg"
         THEN LET argVal == getCallerArg(fullApply, storage.value.n)
              IN IF argVal # NoValue THEN ClassStorage(argVal, storage.proj)
                 ELSE storage
         ELSE storage
    [] storage.kind = "Argument" ->
         LET argVal == getCallerArg(fullApply, storage.index)
         IN IF argVal # NoValue THEN findAccessedStorageOrigin(argVal)
            ELSE InvalidStorage
    [] storage.kind = "Nested" -> UnreachableStorage
    [] storage.kind = "Unidentified" -> storage

\* transformCalleeStorage that rebuilds a class identity without its field
transformCalleeStorage_noProjection(storage, fullApply) ==
  CASE storage.kind \in {"Box", "Stack"} -> InvalidStorage
    [] storage.kind = "Global" -> storage
    [] storage.kind = "Class" ->
         IF storage.value.op = "arg"
         THEN LET argVal == getCallerArg(fullApply, storage.value.n)
              IN IF argVal # NoValue THEN ClassStorage(argVal, 0)
                 ELSE storage
         ELSE storage
    [] storage.kind = "Argument" ->
         LET argVal == getCallerArg(fullApply, storage.index)
         IN IF argVal # NoValue THEN findAccessedStorageOrigin(argVal)
            ELSE UnidentifiedStorage(NoValue)
    [] storage.kind = "Nested" -> UnreachableStorage
    [] storage.kind = "Unidentified" -> storage

\* static AccessedStorage transformCalleeStorage(storage, fullApply)
transformCalleeStorage(storage, fullApply) ==
  CASE storage.kind \in {"Box", "Stack"} -> InvalidStorage
    [] storage.kind = "Global" -> storage
    [] storage.kind = "Class" ->
         IF storage.value.op = "arg"
         THEN LET argVal == getCallerArg(fullApply, storage.value.n)
              IN IF argVal # NoValue THEN ClassStorage(argVal, storage.proj)
                 ELSE storage
         ELSE storage
    [] storage.kind = "Argument" ->
         LET argVal == getCallerArg(fullApply, storage.index)
         IN IF argVal # NoValue THEN findAccessedStorageOrigin(argVal)
            ELSE UnidentifiedStorage(NoValue)
    [] storage.kind = "Nested" -> UnreachableStorage
    [] storage.kind = "Unidentified" -> storage

(***************************************************************************)
(* Instruction scanning.                                                   *)
(***************************************************************************)
\* StorageAccessInfo(beginAccess)
InfoOfAccess(beginAccess) ==
  [accessKind |-> beginAccess.accessKind,
   noNestedConflict |-> beginAccess.noNestedConflict]

\* visitBeginAccess that replaces the record of a key it finds in the map
visitBeginAccess_overwrite(S, beginAccess) ==
  IF beginAccess.enforcement # "Dynamic" THEN [summary |-> S, merges |-> {}]
  ELSE
    LET storage == findAccessedStorageOrigin(beginAccess.source)
        accessInfo == InfoOfAccess(beginAccess)
    IN IF storage.kind = "Unidentified"
       THEN [summary |-> [S EXCEPT !.unidentifiedAccess =
                 updateOptionalAccessKind(S.unidentifiedAccess, beginAccess.accessKind).LHS],
             merges |-> {}]
       ELSE [summary |-> [S EXCEPT !.storageAccessMap =
                             MapInsert(S.storageAccessMap, storage, accessInfo)],
             merges |-> {}]

\* visitBeginAccess that does not look at the enforcement
visitBeginAccess_anyEnforcement(S, beginAccess) ==
  LET storage == findAccessedStorageOrigin(beginAccess.source)
      accessInfo == InfoOfAccess(beginAccess)
  IN IF storage.kind = "Unidentified"
     THEN [summary |-> [S EXCEPT !.unidentifiedAccess =
               updateOptionalAccessKind(S.unidentifiedAccess, beginAccess.accessKind).LHS],
           merges |-> {}]
     ELSE IF storage \notin DOMAIN S.storageAccessMap
     THEN [summary |-> [S EXCEPT !.storageAccessMap =
                           MapInsert(S.storageAccessMap, storage, accessInfo)],
           merges |-> {}]
     ELSE LET r == StorageAccessInfo_mergeFrom(S.storageAccessMap[storage], accessInfo)
          IN [summary |-> [S EXCEPT !.storageAccessMap[storage] = r.info],
              merges |-> {InfoMerge(S.storageAccessMap[storage], accessInfo, r)}]

\* template <typename B> void visitBeginAccess(B *beginAccess)
visitBeginAccess(S, beginAccess) ==
  IF beginAccess.enforcement # "Dynamic" THEN [summary |-> S, merges |-> {}]
  ELSE
    LET storage == findAccessedStorageOrigin(beginAccess.source)
        accessInfo == InfoOfAccess(beginAccess)
    IN IF storage.kind = "Unidentified"
       THEN [summary |-> [S EXCEPT !.unidentifiedAccess =
                 updateOptionalAccessKind(S.unidentifiedAccess, beginAccess.accessKind).LHS],
             merges |-> {}]
       ELSE IF storage \notin DOMAIN S.storageAccessMap
       THEN [summary |-> [S EXCEPT !.storageAccessMap =
                             MapInsert(S.storageAccessMap, storage, accessInfo)],
             merges |-> {}]
       ELSE LET r == StorageAccessInfo_mergeFrom(S.storageAccessMap[storage], accessInfo)
            IN [summary |-> [S EXCEPT !.storageAccessMap[storage] = r.info],
                merges |-> {InfoMerge(S.storageAccessMap[storage], accessInfo, r)}]

\* void FunctionAccessedStorage::analyzeInstruction(SILInstruction *I)
analyzeInstruction(S, I) ==
  IF I.op = "begin_access" THEN visitBeginAccess(S, I)
  ELSE IF I.op = "begin_unpaired_access" THEN visitBeginAccess(S, I)
  ELSE [summary |-> S, merges |-> {}]

(***************************************************************************)
(* The conflict query.                                                     *)
(***************************************************************************)
RECURSIVE conflictLoop_stop(_, _, _, _, _)
\* the loop returning false at the first entry whose kind does not conflict
conflictLoop_stop(map, order, i, otherAccessKind, otherStorage) ==
  IF i > Len(order) THEN FALSE
  ELSE IF ~accessKindMayConflict(otherAccessKind, map[order[i]].accessKind)
  THEN FALSE
  ELSE IF ~isDistinctFrom(otherStorage, order[i]) THEN TRUE
  ELSE conflictLoop_stop(map, order, i + 1, otherAccessKind, otherStorage)

RECURSIVE conflictLoop_anyKind(_, _, _, _, _)
\* the loop without the test of the access kinds
conflictLoop_anyKind(map, order, i, otherAccessKind, otherStorage) ==
  IF i > Len(order) THEN FALSE
  ELSE IF ~isDistinctFrom(otherStorage, order[i]) THEN TRUE
  ELSE conflictLoop_anyKind(map, order, i + 1, otherAccessKind, otherStorage)

RECURSIVE conflictLoop(_, _, _, _, _)
\* the loop of mayConflictWith over storageAccessMap in iteration order
conflictLoop(map, order, i, otherAccessKind, otherStorage) ==
  IF i > Len(order) THEN FALSE
  ELSE IF ~accessKindMayConflict(otherAccessKind, map[order[i]].accessKind)
  THEN conflictLoop(map, order, i + 1, otherAccessKind, otherStorage)
  ELSE IF ~isDistinctFrom(otherStorage, order[i]) THEN TRUE
  ELSE conflictLoop(map, order, i + 1, otherAccessKind, otherStorage)

\* mayConflictWith without the test of unidentifiedAccess
mayConflictWith_entriesOnly(S, order, otherAccessKind, otherStorage) ==
  conflictLoop(S.storageAccessMap, order, 1, otherAccessKind, otherStorage)

\* bool FunctionAccessedStorage::mayConflictWith(otherAccessKind, otherStorage)
mayConflictWith(S, order, otherAccessKind, otherStorage) ==
  IF S.unidentifiedAccess # None
     /\ accessKindMayConflict(otherAccessKind, S.unidentifiedAccess)
  THEN TRUE
  ELSE conflictLoop(S.storageAccessMap, order, 1, otherAccessKind, otherStorage)

(***************************************************************************)
(* Inputs of the calls.                                                    *)
(***************************************************************************)
\* addresses a begin-access of F may name as its source: g is a callee that
\* reaches storage through its parameters, f a caller with storage of its own
Sources(F) ==
  IF F = "g"
  THEN {ArgValue(F, i) : i \in ParamIndices}
         \cup {AllocStack(F), RefElementAddr(F, 0, 1), UnknownAddr(F)}
  ELSE {AllocBox(F), GlobalAddr(F, 0)}

\* an instruction that is no begin-access
OtherInstruction(F) ==
  [op |-> "apply", enforcement |-> "Unknown", accessKind |-> Read,
   noNestedConflict |-> FALSE, source |-> UnknownAddr(F)]

\* begin_access / begin_unpaired_access [kind] [enforcement] [no_nested_conflict] source
Instructions(F) ==
  [op : {"begin_access", "begin_unpaired_access"}, enforcement : {"Dynamic"},
   accessKind : AccessKinds, noNestedConflict : BOOLEAN, source : Sources(F)]
    \cup [op : {"begin_access", "begin_unpaired_access"}, enforcement : {"Static"},
          accessKind : AccessKinds, noNestedConflict : {FALSE}, source : {UnknownAddr(F)}]
    \cup {OtherInstruction(F)}

\* the sequences over S whose length is in lengths
SeqsOf(S, lengths) == UNION {[1 .. n -> S] : n \in lengths}

RECURSIVE Perms(_)
\* the orders in which a DenseMap with key set S may be iterated
Perms(S) ==
  IF S = {} THEN {<< >>}
  ELSE UNION {{<<x>> \o q : q \in Perms(S \ {x})} : x \in S}

\* the side-effect signatures FunctionSideEffects may report
NoSignature == [ok |-> FALSE, global |-> [mayRead |-> FALSE, mayWrite |-> FALSE], params |-> << >>]

Signatures ==
  {NoSignature} \cup
    [ok : {TRUE}, global : Effects, params : SeqsOf(Effects, {Cardinality(ParamIndices)})]

\* the signatures without parameter effects
GlobalSignatures == {sig \in Signatures : \A i \in 1 .. Len(sig.params) :
                       ~sig.params[i].mayRead /\ ~sig.params[i].mayWrite}

\* values of F passed as arguments at its call sites
CallArgs(F) ==
  IF F = "g" THEN {ArgValue(F, 0), AllocStack(F)}
  ELSE {GlobalAddr(F, 0), AllocBox(F), ArgValue(F, 0)}

\* the functions called from F
Callees(F) == IF F = "g" THEN {"g", "f"} ELSE Funcs

\* the call sites of F: a direct call, or a call of a closure that captured
\* the last parameter of the callee
ApplySites(F) ==
  {FullApply(callee, args, pai) :
     callee \in Callees(F), args \in SeqsOf(CallArgs(F), ArgCounts),
     pai \in {NoPAI} \cup {PAI(Cardinality(ParamIndices) - 1, <<v>>) : v \in CallArgs(F)}}

\* storage identities asked about in a conflict query
QueryStorages ==
  {findAccessedStorageOrigin(v) : v \in UNION {Sources(F) : F \in DefFuncs}}
    \cup {GlobalStorage(1)}

(***************************************************************************)
(* The state machine.                                                      *)
(***************************************************************************)
VARIABLES
  summaries,   \* the FunctionAccessedStorage of every function
  last,        \* the call a behaviour records: receiver, inputs, returned value
  nOps,        \* number of mutating calls so far
  record,      \* one StorageAccessInfo that records are merged into
  returns,     \* the calls of mergeFrom on record so far, oldest first
  position,    \* the driver's place in its bottom-up visiting order
  merged,      \* the functions whose summary was merged at some call site
  seen,        \* per function and storage: the dynamic accesses scanned so far
  lookup,      \* one call of getCallerArg: its inputs and its result
  round        \* the iteration over the call edges: phase, next edge, change seen

vars == <<summaries, last, nOps, record, returns, position, merged, seen, lookup, round>>

\* the state outside the summaries: untouched by the calls on summaries
aux == <<record, returns, position, merged, seen, lookup, round>>

NoInstruction == [op |-> "none", enforcement |-> "Unknown", accessKind |-> Read,
                  noNestedConflict |-> FALSE, source |-> NoValue]

NoApply == FullApply("", << >>, NoPAI)

NoCall ==
  [op |-> "none", self |-> "", other |-> "", ret |-> FALSE, merges |-> {},
   instr |-> NoInstruction, apply |-> NoApply, sig |-> NoSignature,
   accessKind |-> Read, answers |-> << >>]

\* getCallerArg has not been called
NoLookup == [fullApply |-> NoApply, paramIndex |-> 0, called |-> FALSE, result |-> NoValue]

\* the bodies are still being scanned, no call edge has been followed
NoRound == [phase |-> "scan", edge |-> 1, changed |-> FALSE]

\* no function visited, nothing scanned, nothing merged
InitAux ==
  /\ returns = << >>
  /\ position = 1
  /\ merged = {}
  /\ seen = [F \in Funcs |-> << >>]
  /\ lookup = NoLookup
  /\ round = NoRound

Init ==
  /\ summaries = [F \in Funcs |-> EmptySummary]
  /\ last = NoCall
  /\ nOps = 0
  /\ record = [accessKind |-> Read, noNestedConflict |-> TRUE]
  /\ InitAux

\* A behaviour records one call, its last one: the calls before it leave
\* last alone (rec = FALSE), and nothing is called after the recorded call.
Recorded(call, rec) == last' = IF rec THEN call ELSE NoCall

\* the driver scans instruction I of F into F's summary
AnalyzeInstruction(F, I, rec) ==
  /\ last = NoCall
  /\ nOps < MaxOps
  /\ LET r == analyzeInstruction(summaries[F], I)
     IN /\ summaries' = [summaries EXCEPT ![F] = r.summary]
        /\ Recorded([NoCall EXCEPT !.op = "analyzeInstruction", !.self = F,
                                   !.instr = I, !.merges = r.merges], rec)
  /\ nOps' = nOps + 1
  /\ UNCHANGED aux

\* summaries[F].summarizeFunction(F); the assert requires an empty map
SummarizeFunction(F, sig, rec) ==
  /\ last = NoCall
  /\ nOps < MaxOps
  /\ DOMAIN summaries[F].storageAccessMap = {}
  /\ LET r == summarizeFunction(summaries[F], F, sig)
     IN /\ summaries' = [summaries EXCEPT ![F] = r.summary]
        /\ Recorded([NoCall EXCEPT !.op = "summarizeFunction", !.self = F,
                                   !.sig = sig, !.ret = r.ret], rec)
  /\ nOps' = nOps + 1
  /\ UNCHANGED aux

\* the entries of other in iteration order, each key transformed by identity
IdentityEntries(other, order) ==
  [i \in 1 .. Len(order) |->
     [key |-> order[i], storage |-> order[i], info |-> other.storageAccessMap[order[i]]]]

\* the entries of other in iteration order, each key transformed for fullApply
ApplyEntries(other, order, fullApply) ==
  [i \in 1 .. Len(order) |->
     [key |-> order[i], storage |-> transformCalleeStorage(order[i], fullApply),
      info |-> other.storageAccessMap[order[i]]]]

\* summaries[F].mergeFrom(summaries[O])
MergeFrom(F, O, rec) ==
  /\ last = NoCall
  /\ nOps < MaxOps
  /\ \E order \in Perms(DOMAIN summaries[O].storageAccessMap) :
       LET r == mergeAccesses(summaries[F], summaries[O],
                              IdentityEntries(summaries[O], order), F = O)
       IN /\ summaries' = [summaries EXCEPT ![F] = r.summary]
          /\ Recorded([NoCall EXCEPT !.op = "mergeFrom", !.self = F, !.other = O,
                                     !.ret = r.changed, !.merges = r.merges], rec)
  /\ nOps' = nOps + 1
  /\ UNCHANGED aux

\* mergeFromApply that moves the entries out of the callee's summary
MergeFromApplyCall_consume(F, fullApply, rec) ==
  /\ last = NoCall
  /\ nOps < MaxOps
  /\ \E order \in Perms(DOMAIN summaries[fullApply.callee].storageAccessMap) :
       LET O == fullApply.callee
           entries == ApplyEntries(summaries[O], order, fullApply)
           r == mergeAccesses(summaries[F], summaries[O], entries, F = O)
       IN /\ \A i \in 1 .. Len(entries) : entries[i].storage.kind # "Unreachable"
          /\ summaries' = IF F = O THEN [summaries EXCEPT ![F] = r.summary]
                          ELSE [summaries EXCEPT ![F] = r.summary, ![O] = EmptySummary]
          /\ Recorded([NoCall EXCEPT !.op = "mergeFromApply", !.self = F, !.other = O,
                                     !.apply = fullApply, !.ret = r.changed,
                                     !.merges = r.merges], rec)
  /\ nOps' = nOps + 1

\* mergeFromApply that writes the merged result to the callee's summary too
MergeFromApplyCall_both(F, fullApply, rec) ==
  /\ last = NoCall
  /\ nOps < MaxOps
  /\ \E order \in Perms(DOMAIN summaries[fullApply.callee].storageAccessMap) :
       LET O == fullApply.callee
           entries == ApplyEntries(summaries[O], order, fullApply)
           r == mergeAccesses(summaries[F], summaries[O], entries, F = O)
       IN /\ \A i \in 1 .. Len(entries) : entries[i].storage.kind # "Unreachable"
          /\ summaries' = [summaries EXCEPT ![F] = r.summary, ![O] = r.summary]
          /\ Recorded([NoCall EXCEPT !.op = "mergeFromApply", !.self = F, !.other = O,
                                     !.apply = fullApply, !.ret = r.changed,
                                     !.merges = r.merges], rec)
  /\ nOps' = nOps + 1

\* summaries[F].mergeFromApply(summaries[callee], fullApply): the call itself
MergeFromApplyCall(F, fullApply, rec) ==
  /\ last = NoCall
  /\ nOps < MaxOps
  /\ \E order \in Perms(DOMAIN summaries[fullApply.callee].storageAccessMap) :
       LET O == fullApply.callee
           entries == ApplyEntries(summaries[O], order, fullApply)
           r == mergeAccesses(summaries[F], summaries[O], entries, F = O)
       IN /\ \A i \in 1 .. Len(entries) : entries[i].storage.kind # "Unreachable"
          /\ summaries' = [summaries EXCEPT ![F] = r.summary]
          /\ Recorded([NoCall EXCEPT !.op = "mergeFromApply", !.self = F, !.other = O,
                                     !.apply = fullApply, !.ret = r.changed,
                                     !.merges = r.merges], rec)
  /\ nOps' = nOps + 1

\* summaries[F].mergeFromApply(summaries[callee], fullApply) at a call site of F
MergeFromApply(F, fullApply, rec) ==
  /\ MergeFromApplyCall(F, fullApply, rec)
  /\ UNCHANGED aux

\* summaries[F].mayConflictWith(otherAccessKind, s) asked by a client pass for
\* every candidate storage s while the map is not modified; answers[s] is
\* the value returned for s
MayConflictWith(F, otherAccessKind) ==
  /\ last = NoCall
  /\ \E order \in Perms(DOMAIN summaries[F].storageAccessMap) :
       last' = [NoCall EXCEPT !.op = "mayConflictWith", !.self = F,
                              !.accessKind = otherAccessKind,
                              !.answers = [s \in QueryStorages |->
                                 mayConflictWith(summaries[F], order, otherAccessKind, s)]]
  /\ UNCHANGED <<summaries, nOps>>
  /\ UNCHANGED aux

\* FunctionSideEffects is computed for declarations only
SignaturesOf == [F \in Funcs |-> IF isDefinition(F) THEN {NoSignature} ELSE Signatures]

GlobalSignaturesOf ==
  [F \in Funcs |-> IF isDefinition(F) THEN {NoSignature} ELSE GlobalSignatures]

InstructionsOf == [F \in DefFuncs |-> Instructions(F)]

ApplySitesOf == [F \in DefFuncs |-> ApplySites(F)]

\* a scan of any instruction of any function with a body; nothing is called
\* after the recorded call
AnalyzeInstructionStep ==
  /\ last = NoCall
  /\ \E F \in DefFuncs : \E I \in InstructionsOf[F] : \E rec \in BOOLEAN :
       AnalyzeInstruction(F, I, rec)

SummarizeFunctionStep ==
  /\ last = NoCall
  /\ \E F \in Funcs : \E sig \in GlobalSignaturesOf[F] : SummarizeFunction(F, sig, FALSE)

MergeFromStep ==
  /\ last = NoCall
  /\ \E F \in Funcs : \E O \in Funcs : \E rec \in BOOLEAN : MergeFrom(F, O, rec)

MergeFromApplyStep ==
  /\ last = NoCall
  /\ \E F \in DefFuncs : \E fullApply \in ApplySitesOf[F] : \E rec \in BOOLEAN :
       MergeFromApply(F, fullApply, rec)

\* any sequence of calls, ending with a recorded scan or merge
Next ==
  \/ AnalyzeInstructionStep
  \/ SummarizeFunctionStep
  \/ MergeFromStep
  \/ MergeFromApplyStep

Spec == Init /\ [][Next]_vars

\* any sequence of calls, ending with a recorded summarizeFunction
NextSummarize ==
  \/ \E F \in DefFuncs : \E I \in InstructionsOf[F] : AnalyzeInstruction(F, I, FALSE)
  \/ \E F \in Funcs : \E sig \in SignaturesOf[F] : \E rec \in BOOLEAN :
       SummarizeFunction(F, sig, rec)
  \/ \E F \in Funcs : \E O \in Funcs : MergeFrom(F, O, FALSE)
  \/ \E F \in DefFuncs : \E fullApply \in ApplySitesOf[F] : MergeFromApply(F, fullApply, FALSE)

SpecSummarize == Init /\ [][NextSummarize]_vars

\* any sequence of calls, followed by conflict queries on one summary
NextQuery ==
  \/ \E F \in DefFuncs : \E I \in InstructionsOf[F] : AnalyzeInstruction(F, I, FALSE)
  \/ \E F \in Funcs : \E sig \in GlobalSignaturesOf[F] : SummarizeFunction(F, sig, FALSE)
  \/ \E F \in Funcs : \E O \in Funcs : MergeFrom(F, O, FALSE)
  \/ \E F \in DefFuncs : \E fullApply \in ApplySitesOf[F] : MergeFromApply(F, fullApply, FALSE)
  \/ \E F \in Funcs : \E k \in AccessKinds : MayConflictWith(F, k)

SpecQuery == Init /\ [][NextQuery]_vars

\* number of merges made into the one record
MaxMerges == 3

\* record starts as any initialized StorageAccessInfo
InitRecord ==
  /\ summaries = [F \in Funcs |-> EmptySummary]
  /\ last = NoCall
  /\ nOps = 0
  /\ record \in StorageAccessInfo
  /\ InitAux

\* record.mergeFrom(RHS); the call is appended to returns
MergeRecord(RHS) ==
  /\ Len(returns) < MaxMerges
  /\ LET r == StorageAccessInfo_mergeFrom(record, RHS)
     IN /\ record' = r.info
        /\ returns' = Append(returns, InfoMerge(record, RHS, r))
  /\ UNCHANGED <<summaries, last, nOps, position, merged, seen, lookup, round>>

\* any sequence of merges into one record
NextRecord == \E RHS \in StorageAccessInfo : MergeRecord(RHS)

SpecRecord == InitRecord /\ [][NextRecord]_vars

(***************************************************************************)
(* The driver: functions are visited bottom-up along the call graph.       *)
(***************************************************************************)
\* a bottom-up order of the call graph e <- g <- f
VisitOrder == <<"e", "g", "f">>

\* the functions whose visit is over
Finished == {VisitOrder[i] : i \in 1 .. (position - 1)}

\* the function being visited, "" when every function has been visited
Current == IF position <= Len(VisitOrder) THEN VisitOrder[position] ELSE ""

\* the call sites of F the order allows: the callee was visited before F, or
\* is F itself (self-recursion)
DriverSites(F) ==
  {fullApply \in ApplySites(F) : fullApply.callee \in Finished \cup {F}}

\* the visit of a function without a body: summarizeFunction, and on to the
\* next function
DriverSummarize(sig) ==
  /\ Current \in Funcs
  /\ ~isDefinition(Current)
  /\ nOps < MaxOps
  /\ summaries' = [summaries EXCEPT
                     ![Current] = summarizeFunction(summaries[Current], Current, sig).summary]
  /\ position' = position + 1
  /\ nOps' = nOps + 1
  /\ UNCHANGED <<last, record, returns, merged, seen, lookup, round>>

\* the visit of a function with a body reaches an instruction that is no call
DriverScan(F, I) ==
  /\ F = Current
  /\ nOps < MaxOps
  /\ summaries' = [summaries EXCEPT ![F] = analyzeInstruction(summaries[F], I).summary]
  /\ nOps' = nOps + 1
  /\ UNCHANGED <<last, record, returns, position, merged, seen, lookup, round>>

\* the visit of a function with a body reaches a call: the callee's summary
\* is merged into the visited function's summary
DriverApply(F, fullApply) ==
  /\ F = Current
  /\ fullApply \in DriverSites(F)
  /\ MergeFromApplyCall(F, fullApply, FALSE)
  /\ merged' = merged \cup {fullApply.callee}
  /\ UNCHANGED <<record, returns, position, seen, lookup, round>>

\* the visit of a function with a body ends
DriverFinish ==
  /\ Current \in DefFuncs
  /\ position' = position + 1
  /\ UNCHANGED <<summaries, last, nOps, record, returns, merged, seen, lookup, round>>

NextDriver ==
  \/ \E sig \in GlobalSignatures : DriverSummarize(sig)
  \/ \E F \in DefFuncs : \E I \in InstructionsOf[F] : DriverScan(F, I)
  \/ \E F \in DefFuncs : \E fullApply \in ApplySitesOf[F] : DriverApply(F, fullApply)
  \/ DriverFinish

SpecDriver == Init /\ [][NextDriver]_vars

(***************************************************************************)
(* Scanning alone: the instructions of a body, with what was scanned.      *)
(***************************************************************************)
\* I is a begin-access (either form) with dynamic enforcement whose source
\* resolves to an identified storage
IdentifiedDynamicAccess(I) ==
  /\ I.op \in {"begin_access", "begin_unpaired_access"}
  /\ I.enforcement = "Dynamic"
  /\ findAccessedStorageOrigin(I.source).kind # "Unidentified"

\* what is known of the accesses to one storage after one more access I:
\* whether one of them was a Modify, whether all of them were annotated
SeenAfter(seenF, I) ==
  LET S == findAccessedStorageOrigin(I.source)
      now == [modify |-> I.accessKind = Modify, annotated |-> I.noNestedConflict]
  IN IF S \in DOMAIN seenF
     THEN [seenF EXCEPT ![S] = [modify |-> seenF[S].modify \/ now.modify,
                                annotated |-> seenF[S].annotated /\ now.annotated]]
     ELSE [T \in DOMAIN seenF \cup {S} |-> IF T = S THEN now ELSE seenF[T]]

\* summaries[F].analyzeInstruction(I), and the account of what was scanned
ScanInstruction(F, I, rec) ==
  /\ last = NoCall
  /\ nOps < MaxOps
  /\ LET r == analyzeInstruction(summaries[F], I)
     IN /\ summaries' = [summaries EXCEPT ![F] = r.summary]
        /\ Recorded([NoCall EXCEPT !.op = "analyzeInstruction", !.self = F,
                                   !.instr = I, !.merges = r.merges], rec)
  /\ seen' = IF IdentifiedDynamicAccess(I)
             THEN [seen EXCEPT ![F] = SeenAfter(seen[F], I)]
             ELSE seen
  /\ nOps' = nOps + 1
  /\ UNCHANGED <<record, returns, position, merged, lookup, round>>

\* any sequence of scans, the last of which is recorded
NextScan ==
  \E F \in DefFuncs : \E I \in InstructionsOf[F] : \E rec \in BOOLEAN :
    ScanInstruction(F, I, rec)

SpecScan == Init /\ [][NextScan]_vars

(***************************************************************************)
(* getCallerArg alone.                                                     *)
(***************************************************************************)
\* the values passed or captured at the call sites looked at
LookupValues == {ArgValue("f", 0), GlobalAddr("f", 0)}

\* a call has up to two direct arguments; its callee origin is no
\* partial_apply, or one that captured up to two values of which the first
\* stands for parameter 0, 1 or 2
LookupSites ==
  {FullApply("g", args, pai) :
     args \in SeqsOf(LookupValues, 0 .. 2),
     pai \in {NoPAI} \cup {PAI(k, captured) :
                             k \in 0 .. 2, captured \in SeqsOf(LookupValues, 0 .. 2)}}

\* the parameter indices asked for
LookupParams == 0 .. 3

\* getCallerArg is about to be called on any call site and parameter index
InitLookup ==
  /\ summaries = [F \in Funcs |-> EmptySummary]
  /\ last = NoCall
  /\ nOps = 0
  /\ record = [accessKind |-> Read, noNestedConflict |-> TRUE]
  /\ returns = << >>
  /\ position = 1
  /\ merged = {}
  /\ seen = [F \in Funcs |-> << >>]
  /\ round = NoRound
  /\ lookup \in [fullApply : LookupSites, paramIndex : LookupParams,
                 called : {FALSE}, result : {NoValue}]

\* getCallerArg(lookup.fullApply, lookup.paramIndex)
GetCallerArg ==
  /\ ~lookup.called
  /\ lookup' = [lookup EXCEPT !.called = TRUE,
                              !.result = getCallerArg(lookup.fullApply, lookup.paramIndex)]
  /\ UNCHANGED <<summaries, last, nOps, record, returns, position, merged, seen, round>>

NextLookup == GetCallerArg

SpecLookup == InitLookup /\ [][NextLookup]_vars

(***************************************************************************)
(* Call sites alone: bodies are scanned, then summaries cross call edges.  *)
(***************************************************************************)
\* the addresses of Sources and the field of an object allocated in F
ApplySources(F) == Sources(F) \cup {RefElementAddrLocal(F, 1)}

\* the dynamically enforced accesses of F
ApplyInstructions(F) ==
  [op : {"begin_access"}, enforcement : {"Dynamic"},
   accessKind : AccessKinds, noNestedConflict : BOOLEAN, source : ApplySources(F)]

ApplyInstructionsOf == [F \in DefFuncs |-> ApplyInstructions(F)]

\* the scan of a dynamically enforced access of a function with a body
ApplyScanStep ==
  /\ last = NoCall
  /\ \E F \in DefFuncs : \E I \in ApplyInstructionsOf[F] : AnalyzeInstruction(F, I, FALSE)

\* any sequence of scans and call-site merges, ending with a recorded
\* call-site merge
NextApply ==
  \/ ApplyScanStep
  \/ MergeFromApplyStep

SpecApply == Init /\ [][NextApply]_vars

(***************************************************************************)
(* A producer that hands out the composite form: Nested keys at call sites.*)
(***************************************************************************)
\* addresses of F, one of them produced by an enclosing access
NestedSources(F) == {NestedAddr(F), GlobalAddr(F, 0), ArgValue(F, 0)}

NestedInstructions(F) ==
  [op : {"begin_access"}, enforcement : {"Dynamic"},
   accessKind : AccessKinds, noNestedConflict : {FALSE}, source : NestedSources(F)]

NestedInstructionsOf == [F \in DefFuncs |-> NestedInstructions(F)]

NestedScanStep ==
  /\ last = NoCall
  /\ \E F \in DefFuncs : \E I \in NestedInstructionsOf[F] : AnalyzeInstruction(F, I, FALSE)

\* llvm_unreachable is __builtin_unreachable in a build without assertions:
\* the behaviour is undefined, control runs on into the next case of the
\* switch (return storage) or past its end, and the caller of
\* transformCalleeStorage gets some storage object
UnreachableResults(storage) ==
  {storage, InvalidStorage, UnidentifiedStorage(storage.value)}

\* the entries of ApplyEntries with what a build without assertions yields
\* for the Nested keys
UnreachableEntries(entries, order, result) ==
  [i \in 1 .. Len(entries) |->
     IF entries[i].storage.kind = "Unreachable"
     THEN [entries[i] EXCEPT !.storage = result[order[i]]]
     ELSE entries[i]]

\* summaries[F].mergeFromApply(summaries[callee], fullApply) when the callee
\* holds a Nested key: in a build with assertions llvm_unreachable reports
\* the error and aborts the process; without them the merge goes on
MergeFromApplyUnreachable(F, fullApply, assertions) ==
  /\ last = NoCall
  /\ nOps < MaxOps
  /\ \E order \in Perms(DOMAIN summaries[fullApply.callee].storageAccessMap) :
       LET O == fullApply.callee
           entries == ApplyEntries(summaries[O], order, fullApply)
           nested == {T \in DOMAIN summaries[O].storageAccessMap : T.kind = "Nested"}
       IN /\ \E i \in 1 .. Len(entries) : entries[i].storage.kind = "Unreachable"
          /\ IF assertions
             THEN /\ summaries' = summaries
                  /\ last' = [NoCall EXCEPT !.op = "llvm_unreachable", !.self = F,
                                            !.other = O, !.apply = fullApply]
             ELSE \E result \in [nested -> UNION {UnreachableResults(T) : T \in nested}] :
                    /\ \A T \in nested : result[T] \in UnreachableResults(T)
                    /\ LET r == mergeAccesses(summaries[F], summaries[O],
                                              UnreachableEntries(entries, order, result), F = O)
                       IN /\ summaries' = [summaries EXCEPT ![F] = r.summary]
                          /\ last' = [NoCall EXCEPT !.op = "mergeFromApply", !.self = F,
                                                    !.other = O, !.apply = fullApply,
                                                    !.ret = r.changed, !.merges = r.merges]
  /\ nOps' = nOps + 1
  /\ UNCHANGED aux

MergeFromApplyUnreachableStep ==
  /\ last = NoCall
  /\ \E F \in DefFuncs : \E fullApply \in ApplySitesOf[F] : \E assertions \in BOOLEAN :
       MergeFromApplyUnreachable(F, fullApply, assertions)

\* scans and call-site merges of summaries that may hold Nested keys
NextNested ==
  \/ NestedScanStep
  \/ MergeFromApplyStep
  \/ MergeFromApplyUnreachableStep

SpecNested == Init /\ [][NextNested]_vars

(***************************************************************************)
(* Iteration over call edges until a round without a change.               *)
(***************************************************************************)
\* the accesses of the bodies: g reaches storage through its parameters, f
\* accesses a global
FixpointSources(F) ==
  IF F = "g" THEN {ArgValue(F, 0), ArgValue(F, 1), RefElementAddr(F, 0, 1)}
  ELSE {GlobalAddr(F, 0)}

FixpointInstructions(F) ==
  [op : {"begin_access"}, enforcement : {"Dynamic"},
   accessKind : AccessKinds, noNestedConflict : BOOLEAN, source : FixpointSources(F)]

FixpointInstructionsOf == [F \in DefFuncs |-> FixpointInstructions(F)]

\* the call edges of the program: g calls itself through a closure that
\* captured its parameter 0, f calls g passing a global directly and captured,
\* f calls g passing its own parameter, and g calls f (mutual recursion)
CallEdges ==
  << [caller |-> "g", apply |-> FullApply("g", << >>, PAI(1, <<ArgValue("g", 0)>>))],
     [caller |-> "f",
      apply |-> FullApply("g", <<GlobalAddr("f", 0)>>, PAI(1, <<GlobalAddr("f", 0)>>))],
     [caller |-> "f", apply |-> FullApply("g", <<ArgValue("f", 0)>>, NoPAI)],
     [caller |-> "g", apply |-> FullApply("f", <<ArgValue("g", 0)>>, NoPAI)] >>

\* the scan of an access of a body, before the edges are followed
FixpointScan ==
  /\ round.phase = "scan"
  /\ \E F \in DefFuncs : \E I \in FixpointInstructionsOf[F] : AnalyzeInstruction(F, I, FALSE)

\* the bodies are scanned: the first round over the call edges begins
FixpointStart ==
  /\ round.phase = "scan"
  /\ round' = [phase |-> "merge", edge |-> 1, changed |-> FALSE]
  /\ UNCHANGED <<summaries, last, nOps, record, returns, position, merged, seen, lookup>>

\* caller.mergeFromApply(callee, apply) along the next edge of the round
FixpointMerge ==
  /\ round.phase = "merge"
  /\ round.edge <= Len(CallEdges)
  /\ LET F == CallEdges[round.edge].caller
         fullApply == CallEdges[round.edge].apply
         O == fullApply.callee
     IN \E order \in Perms(DOMAIN summaries[O].storageAccessMap) :
          LET r == mergeAccesses(summaries[F], summaries[O],
                                 ApplyEntries(summaries[O], order, fullApply), F = O)
          IN /\ summaries' = [summaries EXCEPT ![F] = r.summary]
             /\ round' = [round EXCEPT !.edge = @ + 1, !.changed = @ \/ r.changed]
  /\ UNCHANGED <<last, nOps, record, returns, position, merged, seen, lookup>>

\* a round in which some merge returned true is followed by another round
FixpointAgain ==
  /\ round.phase = "merge"
  /\ round.edge > Len(CallEdges)
  /\ round.changed
  /\ round' = [phase |-> "merge", edge |-> 1, changed |-> FALSE]
  /\ UNCHANGED <<summaries, last, nOps, record, returns, position, merged, seen, lookup>>

\* a round in which every merge returned false ends the iteration
FixpointDone ==
  /\ round.phase = "merge"
  /\ round.edge > Len(CallEdges)
  /\ ~round.changed
  /\ round' = [round EXCEPT !.phase = "done"]
  /\ UNCHANGED <<summaries, last, nOps, record, returns, position, merged, seen, lookup>>

NextFixpoint ==
  \/ FixpointScan
  \/ FixpointStart
  \/ FixpointMerge
  \/ FixpointAgain
  \/ FixpointDone

\* the iteration is past the edge it was at: this is what a step of
\* FixpointMerge does to round, whatever the merge does to the summaries
EdgeFollowed ==
  /\ round.phase = "merge"
  /\ round.edge <= Len(CallEdges)
  /\ round' \in [phase : {"merge"}, edge : {round.edge + 1}, changed : BOOLEAN]

\* the iteration is a sequential loop and mergeFromApply always returns: the
\* loop starts, gets past every edge it is at, and ends every round
SpecFixpoint ==
  /\ Init /\ [][NextFixpoint]_vars
  /\ WF_vars(FixpointStart) /\ WF_round(EdgeFollowed)
  /\ WF_vars(FixpointAgain) /\ WF_vars(FixpointDone)

(***************************************************************************)
(* The life of unidentifiedAccess: every call that can assign the slot.    *)
(***************************************************************************)
\* accesses that reach the slot: an address without a classifiable base, and
\* a parameter, which is demoted at a call without an argument for it
SlotSources(F) == {UnknownAddr(F), ArgValue(F, 0)}

SlotInstructions(F) ==
  [op : {"begin_access"}, enforcement : {"Dynamic"},
   accessKind : AccessKinds, noNestedConflict : {FALSE}, source : SlotSources(F)]

SlotInstructionsOf == [F \in DefFuncs |-> SlotInstructions(F)]

SlotScanStep ==
  /\ last = NoCall
  /\ \E F \in DefFuncs : \E I \in SlotInstructionsOf[F] : \E rec \in BOOLEAN :
       AnalyzeInstruction(F, I, rec)

\* summarizeFunction, called whenever the map of the summary is empty
SlotSummarizeStep ==
  /\ last = NoCall
  /\ \E F \in Funcs : \E sig \in GlobalSignaturesOf[F] : \E rec \in BOOLEAN :
       SummarizeFunction(F, sig, rec)

\* any sequence of calls, the last of which is recorded
NextSlot ==
  \/ SlotScanStep
  \/ SlotSummarizeStep
  \/ MergeFromStep
  \/ MergeFromApplyStep

SpecSlot == Init /\ [][NextSlot]_vars

(***************************************************************************)
(* Summaries with common keys, merged into one another.                    *)
(***************************************************************************)
\* every function accesses the same two globals and unclassifiable addresses
CommuteSources(F) == {GlobalAddr(F, 0), GlobalAddr(F, 1), UnknownAddr(F)}

CommuteInstructions(F) ==
  [op : {"begin_access"}, enforcement : {"Dynamic"},
   accessKind : AccessKinds, noNestedConflict : BOOLEAN, source : CommuteSources(F)]

CommuteInstructionsOf == [F \in DefFuncs |-> CommuteInstructions(F)]

CommuteScanStep ==
  /\ last = NoCall
  /\ \E F \in DefFuncs : \E I \in CommuteInstructionsOf[F] :
       AnalyzeInstruction(F, I, FALSE)

NextCommute ==
  \/ CommuteScanStep
  \/ MergeFromStep

SpecCommute == Init /\ [][NextCommute]_vars

TypeOK ==
  /\ \A F \in Funcs :
       /\ summaries[F].unidentifiedAccess \in OptAccessKinds
       /\ \A s \in DOMAIN summaries[F].storageAccessMap :
            /\ summaries[F].storageAccessMap[s] \in StorageAccessInfo
            /\ s.kind \in {"Box", "Stack", "Global", "Class", "Argument", "Nested"}
  /\ nOps \in 0 .. MaxOps

(***************************************************************************)
(* Properties.                                                             *)
(***************************************************************************)
\* the calls that go through StorageAccessInfo::mergeFrom
RecordMerging == {"analyzeInstruction", "mergeFrom", "mergeFromApply"}

\* C1: StorageAccessInfo::mergeFrom, for every pair of Read/Modify records:
\* afterwards accessKind is Modify iff self or other was Modify,
\* noNestedConflict is the AND of the two flags, and the returned flag is true
\* iff one of the two fields of self differs from its value before the call.
C1_InfoMergeContract ==
  \A m \in last.merges :
    /\ m.lhs \in StorageAccessInfo /\ m.rhs \in StorageAccessInfo
    /\ (m.out.accessKind = Modify) <=> (m.lhs.accessKind = Modify \/ m.rhs.accessKind = Modify)
    /\ m.out.accessKind \in AccessKinds
    /\ m.out.noNestedConflict <=> (m.lhs.noNestedConflict /\ m.rhs.noNestedConflict)
    /\ m.changed <=> (m.out.accessKind # m.lhs.accessKind
                        \/ m.out.noNestedConflict # m.lhs.noNestedConflict)

\* a recorded call merged a Modify record without the flag into a Read record
\* with the flag: both fields change and the call reports it
C1_Witness ==
  /\ last.op \in RecordMerging
  /\ \E m \in last.merges :
       /\ m.lhs = [accessKind |-> Read, noNestedConflict |-> TRUE]
       /\ m.rhs = [accessKind |-> Modify, noNestedConflict |-> FALSE]
       /\ m.out = m.rhs
       /\ m.changed

\* C2: Modify dominates Read: once the record stored for a storage identity
\* has accessKind Modify, the identity stays a key and its record stays Modify
\* in the next state, hence in every later state.
C2_ModifyDominates ==
  [][\A F \in Funcs : \A s \in DOMAIN summaries[F].storageAccessMap :
       summaries[F].storageAccessMap[s].accessKind = Modify
         => /\ s \in DOMAIN summaries'[F].storageAccessMap
            /\ summaries'[F].storageAccessMap[s].accessKind = Modify]_vars

\* a Read was merged into a record that was Modify, and the record stored for
\* that identity is Modify
C2_Witness ==
  /\ last.op \in RecordMerging
  /\ \E m \in last.merges :
       /\ m.lhs.accessKind = Modify /\ m.rhs.accessKind = Read
       /\ \E s \in DOMAIN summaries[last.self].storageAccessMap :
            summaries[last.self].storageAccessMap[s] = m.out /\ m.out.accessKind = Modify

\* C3: noNestedConflict is permanently false once lost: once the record stored
\* for a storage identity has noNestedConflict = FALSE, the identity stays a
\* key and the flag stays FALSE in the next state, hence in every later state.
C3_NoNestedConflictLost ==
  [][\A F \in Funcs : \A s \in DOMAIN summaries[F].storageAccessMap :
       ~summaries[F].storageAccessMap[s].noNestedConflict
         => /\ s \in DOMAIN summaries'[F].storageAccessMap
            /\ ~summaries'[F].storageAccessMap[s].noNestedConflict]_vars

\* a record carrying the flag was merged into a record that had lost it, and
\* the record stored for that identity is still without the flag
C3_Witness ==
  /\ last.op \in RecordMerging
  /\ \E m \in last.merges :
       /\ ~m.lhs.noNestedConflict /\ m.rhs.noNestedConflict
       /\ \E s \in DOMAIN summaries[last.self].storageAccessMap :
            summaries[last.self].storageAccessMap[s] = m.out /\ ~m.out.noNestedConflict

\* the Stack and Box keys of F's summary that were not produced by F's own
\* instructions
ForeignLocals(F) ==
  {s \in DOMAIN summaries[F].storageAccessMap :
     s.kind \in {"Stack", "Box"} /\ s.value.fn # F}

\* C4 as stated: after any sequence of analyzeInstruction, mergeFrom and
\* mergeFromApply calls, no Stack or Box identity produced by scanning g is a
\* key of the summary of a different function f.
C4_Confinement == \A F \in Funcs : ForeignLocals(F) = {}

\* the recorded call is a scan, a call-site merge, or a mergeFrom of a summary
\* into itself
ScanOrApplyCall(call) ==
  \/ call.op \in {"analyzeInstruction", "mergeFromApply"}
  \/ call.op = "mergeFrom" /\ call.self = call.other

\* C4 as amended: analyzeInstruction, mergeFromApply and a mergeFrom of a
\* summary into itself never add a Stack or Box identity of another function
\* to a summary; only mergeFrom between the summaries of two different
\* functions, whose transform is the identity, copies such keys.
C4_ConfinementByApply ==
  [][ScanOrApplyCall(last') =>
       \A F \in Funcs : ForeignLocals(F)' \subseteq ForeignLocals(F)]_vars

\* a caller merged, at a call site, a callee summary that holds a Stack or Box
\* key of the callee, and the caller's summary has no such key
C4_Witness ==
  /\ last.op = "mergeFromApply"
  /\ last.self # last.other
  /\ \E s \in DOMAIN summaries[last.other].storageAccessMap :
       s.kind \in {"Stack", "Box"} /\ s.value.fn = last.other
  /\ ForeignLocals(last.self) = {}
  /\ last.ret

\* C5: mayConflictWith(kind, S) returns true iff (a) unidentifiedAccess is set
\* and one of kind and unidentifiedAccess is Modify, or (b) some entry
\* (T, record) has one of kind and record.accessKind equal to Modify and S is
\* not provably distinct from T.  In particular, on a summary holding only
\* Argument(0) -> Modify and no unidentified access, a Read of Argument(0)
\* conflicts and a Read of a global does not.
C5_MayConflictContract ==
  last.op = "mayConflictWith" =>
    LET S == summaries[last.self]
        kind == last.accessKind
        byUnidentified == /\ S.unidentifiedAccess # None
                          /\ (kind = Modify \/ S.unidentifiedAccess = Modify)
        byEntry(s) == \E T \in DOMAIN S.storageAccessMap :
                        /\ (kind = Modify \/ S.storageAccessMap[T].accessKind = Modify)
                        /\ ~isDistinctFrom(s, T)
    IN /\ \A s \in QueryStorages : last.answers[s] <=> (byUnidentified \/ byEntry(s))
       /\ (/\ DOMAIN S.storageAccessMap = {ArgumentStorage(0)}
           /\ S.storageAccessMap[ArgumentStorage(0)].accessKind = Modify
           /\ S.unidentifiedAccess = None
           /\ kind = Read)
            => /\ last.answers[ArgumentStorage(0)]
               /\ ~last.answers[GlobalStorage(0)]
               /\ ~last.answers[GlobalStorage(1)]

\* the scenario of C5 was asked: only Argument(0) -> Modify, a Read query
C5_Witness ==
  /\ last.op = "mayConflictWith"
  /\ last.accessKind = Read
  /\ summaries[last.self].unidentifiedAccess = None
  /\ DOMAIN summaries[last.self].storageAccessMap = {ArgumentStorage(0)}
  /\ summaries[last.self].storageAccessMap[ArgumentStorage(0)].accessKind = Modify
  /\ last.answers[ArgumentStorage(0)]
  /\ ~last.answers[GlobalStorage(0)]

\* C6: unidentified absorption: on a summary with unidentifiedAccess = Modify,
\* mayConflictWith(Read, S) returns true for every candidate S, whatever
\* storageAccessMap contains.
C6_UnidentifiedAbsorption ==
  (/\ last.op = "mayConflictWith"
   /\ last.accessKind = Read
   /\ summaries[last.self].unidentifiedAccess = Modify)
    => \A s \in QueryStorages : last.answers[s]

\* a Read query on a summary with unidentifiedAccess = Modify and a non-empty
\* map was answered true for a candidate that no entry conflicts with
C6_Witness ==
  /\ last.op = "mayConflictWith"
  /\ last.accessKind = Read
  /\ summaries[last.self].unidentifiedAccess = Modify
  /\ DOMAIN summaries[last.self].storageAccessMap # {}
  /\ \E s \in QueryStorages :
       /\ last.answers[s]
       /\ \A T \in DOMAIN summaries[last.self].storageAccessMap :
            \/ summaries[last.self].storageAccessMap[T].accessKind = Read
            \/ (T.kind # s.kind /\ s.kind # "Unidentified")

\* C7: conflict symmetry on kind: on a summary whose only entry is a Read
\* access to S and whose unidentifiedAccess is unset, mayConflictWith(Read, S)
\* returns false and mayConflictWith(Modify, S) returns true.
C7_ConflictSymmetry ==
  last.op = "mayConflictWith" =>
    \A s \in QueryStorages :
      (/\ summaries[last.self].unidentifiedAccess = None
       /\ DOMAIN summaries[last.self].storageAccessMap = {s}
       /\ summaries[last.self].storageAccessMap[s].accessKind = Read)
        => /\ last.accessKind = Read => ~last.answers[s]
           /\ last.accessKind = Modify => last.answers[s]

\* a Modify query on a summary holding only a Read of S was answered true for S
C7_Witness ==
  /\ last.op = "mayConflictWith"
  /\ last.accessKind = Modify
  /\ summaries[last.self].unidentifiedAccess = None
  /\ \E s \in QueryStorages :
       /\ DOMAIN summaries[last.self].storageAccessMap = {s}
       /\ summaries[last.self].storageAccessMap[s].accessKind = Read
       /\ last.answers[s]

\* the global effects or some parameter's effects may write / may read
AnyMayWrite(sig) ==
  sig.global.mayWrite \/ \E i \in 1 .. Len(sig.params) : sig.params[i].mayWrite

AnyMayRead(sig) ==
  sig.global.mayRead \/ \E i \in 1 .. Len(sig.params) : sig.params[i].mayRead

\* C8: summarizeFunction on a function whose body is unavailable returns
\* true, leaves storageAccessMap empty, and sets unidentifiedAccess to Modify
\* when the signature cannot be computed; otherwise to Modify if the global
\* or any parameter's effects may write, else to Read if they may read, else
\* it does not assign it (on a fresh summary it stays unset).
C8_SummarizeDeclaration ==
  [][(last'.op = "summarizeFunction" /\ ~isDefinition(last'.self)) =>
       LET F == last'.self
           sig == last'.sig
           before == summaries[F].unidentifiedAccess
           after == summaries'[F].unidentifiedAccess
       IN /\ last'.ret
          /\ DOMAIN summaries'[F].storageAccessMap = {}
          /\ after = IF ~sig.ok THEN Modify
                     ELSE IF AnyMayWrite(sig) THEN Modify
                     ELSE IF AnyMayRead(sig) THEN Read
                     ELSE before
          /\ (before = None /\ sig.ok /\ ~AnyMayWrite(sig) /\ ~AnyMayRead(sig))
               => after = None
          /\ \A G \in Funcs \ {F} : summaries'[G] = summaries[G]]_vars

\* the scenario of the specification: the body is unavailable, the signature
\* reports only that parameter 1 may write; the call returned true and left
\* unidentifiedAccess = Modify and the map empty
C8_Witness ==
  /\ last.op = "summarizeFunction"
  /\ ~isDefinition(last.self)
  /\ last.sig.ok
  /\ ~last.sig.global.mayRead /\ ~last.sig.global.mayWrite
  /\ ~last.sig.params[1].mayRead /\ ~last.sig.params[1].mayWrite
  /\ last.sig.params[2].mayWrite /\ ~last.sig.params[2].mayRead
  /\ last.ret
  /\ summaries[last.self].unidentifiedAccess = Modify
  /\ DOMAIN summaries[last.self].storageAccessMap = {}

\* C9: summarizeFunction on a function whose body is available returns false
\* and leaves the summary (storageAccessMap and unidentifiedAccess) exactly
\* as it was before the call.
C9_SummarizeDefinition ==
  [][(last'.op = "summarizeFunction" /\ isDefinition(last'.self)) =>
       /\ ~last'.ret
       /\ summaries' = summaries]_vars

\* summarizeFunction was called on a function with a body whose summary
\* already holds an unidentified access, and returned false
C9_Witness ==
  /\ last.op = "summarizeFunction"
  /\ isDefinition(last.self)
  /\ ~last.ret
  /\ summaries[last.self].unidentifiedAccess # None

\* a key was inserted, a stored record changed, or unidentifiedAccess changed
ReceiverChanged(before, after) ==
  \/ DOMAIN after.storageAccessMap # DOMAIN before.storageAccessMap
  \/ \E k \in DOMAIN before.storageAccessMap \cap DOMAIN after.storageAccessMap :
       \/ after.storageAccessMap[k].accessKind # before.storageAccessMap[k].accessKind
       \/ after.storageAccessMap[k].noNestedConflict
            # before.storageAccessMap[k].noNestedConflict
  \/ after.unidentifiedAccess # before.unidentifiedAccess

\* C10: mergeAccesses (through mergeFrom or mergeFromApply) returns true iff
\* the receiving summary after the call differs from the one before it, that
\* is iff a key was inserted, a stored record's accessKind or
\* noNestedConflict changed, or unidentifiedAccess changed; it returns false
\* exactly when the receiver is unchanged.
C10_ChangedIffDiffers ==
  [][(last'.op \in {"mergeFrom", "mergeFromApply"}) =>
       LET before == summaries[last'.self]
           after == summaries'[last'.self]
       IN /\ last'.ret <=> (after # before)
          /\ last'.ret <=> ReceiverChanged(before, after)]_vars

\* a merge between two functions returned true because a stored record
\* changed, the unidentified access of both summaries being the same
C10_Witness ==
  /\ last.op \in {"mergeFrom", "mergeFromApply"}
  /\ last.ret
  /\ \E m \in last.merges : m.changed
  /\ last.self # last.other
  /\ DOMAIN summaries[last.self].storageAccessMap # {}
  /\ summaries[last.self].unidentifiedAccess = summaries[last.other].unidentifiedAccess

\* a merge that found nothing new and returned false although the other
\* summary has entries and an unidentified access
C10_WitnessUnchanged ==
  /\ last.op \in {"mergeFrom", "mergeFromApply"}
  /\ ~last.ret
  /\ last.self # last.other
  /\ DOMAIN summaries[last.other].storageAccessMap # {}

\* C11: idempotence of self-merge: for every summary X, X.mergeFrom(X) leaves
\* X's storageAccessMap and unidentifiedAccess unchanged and reports no
\* change.
C11_SelfMergeIdempotent ==
  [][(last'.op = "mergeFrom" /\ last'.self = last'.other) =>
       /\ ~last'.ret
       /\ summaries' = summaries]_vars

\* a summary holding entries and an unidentified access was merged into
\* itself; the call returned false
C11_Witness ==
  /\ last.op = "mergeFrom"
  /\ last.self = last.other
  /\ ~last.ret
  /\ DOMAIN summaries[last.self].storageAccessMap # {}
  /\ summaries[last.self].unidentifiedAccess # None

\* C12: record-merge idempotence: for every record R with accessKind in
\* {Read, Modify}, merging R with a copy of itself returns changed = false
\* and leaves R unchanged.
C12_RecordMergeIdempotent ==
  \A i \in 1 .. Len(returns) :
    returns[i].rhs = returns[i].lhs =>
      ~returns[i].changed /\ returns[i].out = returns[i].lhs

\* a Modify record carrying the flag was merged with a copy of itself, after
\* it had been merged with something else
C12_Witness ==
  /\ Len(returns) >= 2
  /\ returns[1].rhs # returns[1].lhs
  /\ \E i \in 2 .. Len(returns) :
       /\ returns[i].rhs = returns[i].lhs
       /\ returns[i].lhs = [accessKind |-> Modify, noNestedConflict |-> TRUE]
       /\ record = returns[i].lhs

\* the merges that merged a Modify record into a Read record
Upgrades == {i \in 1 .. Len(returns) :
               returns[i].lhs.accessKind = Read /\ returns[i].rhs.accessKind = Modify}

\* C13 as stated: merging a Modify record into a Read record leaves the
\* record Modify and returns changed = true, and no later merge into that
\* record reports a change.
C13_ChangedOnce ==
  \A i \in Upgrades :
    /\ returns[i].out.accessKind = Modify
    /\ returns[i].changed
    /\ \A j \in (i + 1) .. Len(returns) : ~returns[j].changed

\* C13 as amended: merging a Modify record into a Read record leaves the
\* record Modify and returns changed = true; afterwards the record stays
\* Modify, and a later merge reports a change exactly when it clears
\* noNestedConflict (the record carries the flag and the merged record does
\* not), which happens at most once.
C13_ChangedOncePerField ==
  \A i \in Upgrades :
    /\ returns[i].out.accessKind = Modify
    /\ returns[i].changed
    /\ \A j \in (i + 1) .. Len(returns) :
         /\ returns[j].out.accessKind = Modify
         /\ returns[j].changed <=>
              (returns[j].lhs.noNestedConflict /\ ~returns[j].rhs.noNestedConflict)
    /\ Cardinality({j \in (i + 1) .. Len(returns) : returns[j].changed}) <= 1

\* a Read record was merged with a Modify record, a later merge cleared its
\* flag and reported a change, and the merge after that reported none
C13_Witness ==
  /\ Len(returns) = 3
  /\ 1 \in Upgrades
  /\ returns[2].changed
  /\ ~returns[3].changed
  /\ record = [accessKind |-> Modify, noNestedConflict |-> FALSE]

\* C14: a merge mutates only its receiver: when other is a different summary
\* than the receiver, mergeFrom(other) and mergeFromApply(other, apply) leave
\* other's storageAccessMap and unidentifiedAccess exactly as they were, for
\* every transform outcome.
C14_OnlyReceiverMutated ==
  [][(last'.op \in {"mergeFrom", "mergeFromApply"} /\ last'.self # last'.other) =>
       /\ summaries'[last'.other] = summaries[last'.other]
       /\ \A G \in Funcs \ {last'.self} : summaries'[G] = summaries[G]]_vars

\* a call-site merge changed the caller; the callee's summary holds a key
\* that was translated and a key that was dropped
C14_Witness ==
  /\ last.op = "mergeFromApply"
  /\ last.self # last.other
  /\ last.ret
  /\ \E s, t \in DOMAIN summaries[last.other].storageAccessMap :
       /\ s.kind = "Argument"
       /\ transformCalleeStorage(s, last.apply) \in DOMAIN summaries[last.self].storageAccessMap
       /\ t.kind = "Stack"
       /\ transformCalleeStorage(t, last.apply) = InvalidStorage

\* the argument of the call that parameter p of the callee stands for: direct
\* argument p, else the captured argument at offset p - k of the partial
\* application whose first applied argument is parameter k, else no value
ResolvedArg(fullApply, p) ==
  IF p < Len(fullApply.args) THEN fullApply.args[p + 1]
  ELSE IF /\ fullApply.pai.present
          /\ p >= fullApply.pai.first
          /\ p - fullApply.pai.first < Len(fullApply.pai.args)
       THEN fullApply.pai.args[p - fullApply.pai.first + 1]
       ELSE NoValue

\* the parameters i of the callee whose key Argument(i) is in callee and whose
\* argument at the call is the address of a global
GlobalArguments(callee, fullApply) ==
  {i \in ParamIndices :
     /\ ArgumentStorage(i) \in DOMAIN callee.storageAccessMap
     /\ ResolvedArg(fullApply, i).op = "global_addr"}

\* C15: call-site translation of an argument: if the callee summary has
\* Argument(i) -> record and the resolved argument i of the call has storage
\* origin Global(x) in the caller, then after mergeFromApply the caller has
\* key Global(x), its accessKind is Modify whenever the callee record's is,
\* and no key Argument(i) was added for this entry.
C15_ArgumentTranslation ==
  [][(last'.op = "mergeFromApply") =>
       LET callee == summaries[last'.other]
           before == summaries[last'.self].storageAccessMap
           after == summaries'[last'.self].storageAccessMap
       IN \A i \in GlobalArguments(callee, last'.apply) :
            LET x == ResolvedArg(last'.apply, i).n
            IN /\ GlobalStorage(x) \in DOMAIN after
               /\ callee.storageAccessMap[ArgumentStorage(i)].accessKind = Modify
                    => after[GlobalStorage(x)].accessKind = Modify
               /\ ArgumentStorage(i) \in DOMAIN after =>
                    \/ ArgumentStorage(i) \in DOMAIN before
                    \/ \E j \in ParamIndices \ {i} :
                         /\ ArgumentStorage(j) \in DOMAIN callee.storageAccessMap
                         /\ ResolvedArg(last'.apply, j).op = "arg"
                         /\ ResolvedArg(last'.apply, j).n = i]_vars

\* the scenario of the specification: the callee holds Argument(0) -> Modify,
\* the call passes the address of a global as argument 0, and after
\* mergeFromApply the caller holds Global(x) -> Modify and no Argument(0)
C15_Witness ==
  /\ last.op = "mergeFromApply"
  /\ last.self # last.other
  /\ 0 \in GlobalArguments(summaries[last.other], last.apply)
  /\ summaries[last.other].storageAccessMap[ArgumentStorage(0)].accessKind = Modify
  /\ LET x == ResolvedArg(last.apply, 0).n
     IN /\ GlobalStorage(x) \in DOMAIN summaries[last.self].storageAccessMap
        /\ summaries[last.self].storageAccessMap[GlobalStorage(x)].accessKind = Modify
  /\ ArgumentStorage(0) \notin DOMAIN summaries[last.self].storageAccessMap
  /\ last.ret

C17_ScannedEntries ==
  \A F \in DefFuncs :
    LET map == summaries[F].storageAccessMap
    IN /\ DOMAIN map = DOMAIN seen[F]
       /\ \A S \in DOMAIN seen[F] :
            /\ S.kind # "Unidentified"
            /\ map[S].accessKind \in AccessKinds
            /\ (map[S].accessKind = Modify) <=> seen[F][S].modify
            /\ map[S].noNestedConflict <=> seen[F][S].annotated

\* three accesses were scanned in one function: one storage was read with
\* the annotation and modified without it, another was read with it
C17_Witness ==
  /\ nOps = 3
  /\ \E F \in DefFuncs : \E S, T \in DOMAIN seen[F] :
       /\ S # T
       /\ seen[F][S] = [modify |-> TRUE, annotated |-> FALSE]
       /\ summaries[F].storageAccessMap[S] = [accessKind |-> Modify, noNestedConflict |-> FALSE]
       /\ seen[F][T] = [modify |-> FALSE, annotated |-> TRUE]
       /\ summaries[F].storageAccessMap[T] = [accessKind |-> Read, noNestedConflict |-> TRUE]

\* the join of an access kind into the slot: an unset slot takes the kind, a
\* Read slot becomes Modify on a Modify access, a Modify slot stays Modify
JoinedSlot(slot, kind) ==
  IF slot = None THEN kind
  ELSE IF slot = Read /\ kind = Modify THEN Modify
  ELSE slot

\* C18: scanning unidentified accesses: a dynamically enforced begin-access
\* whose resolved identity is Unidentified adds no key to storageAccessMap
\* and changes no stored record; it only joins its access kind into
\* unidentifiedAccess.
C18_UnidentifiedScan ==
  [][(/\ last'.op = "analyzeInstruction"
      /\ last'.instr.op \in {"begin_access", "begin_unpaired_access"}
      /\ last'.instr.enforcement = "Dynamic"
      /\ findAccessedStorageOrigin(last'.instr.source).kind = "Unidentified") =>
       LET F == last'.self
       IN /\ summaries'[F].storageAccessMap = summaries[F].storageAccessMap
          /\ summaries'[F].unidentifiedAccess =
               JoinedSlot(summaries[F].unidentifiedAccess, last'.instr.accessKind)
          /\ \A G \in Funcs \ {F} : summaries'[G] = summaries[G]]_vars

\* a Read access to an unidentified address was scanned into a summary that
\* holds an entry and whose unidentifiedAccess is Modify
C18_Witness ==
  /\ last.op = "analyzeInstruction"
  /\ last.instr.enforcement = "Dynamic"
  /\ last.instr.accessKind = Read
  /\ findAccessedStorageOrigin(last.instr.source).kind = "Unidentified"
  /\ summaries[last.self].unidentifiedAccess = Modify
  /\ DOMAIN summaries[last.self].storageAccessMap # {}

\* C19: analyzeInstruction leaves the summary unchanged for every instruction
\* that is not a paired or unpaired begin-access, and for every begin-access
\* whose enforcement is not Dynamic.
C19_IgnoredInstructions ==
  [][(/\ last'.op = "analyzeInstruction"
      /\ \/ last'.instr.op \notin {"begin_access", "begin_unpaired_access"}
         \/ last'.instr.enforcement # "Dynamic") =>
       summaries' = summaries]_vars

\* a Modify begin-access with static enforcement was scanned into a summary
\* whose unidentifiedAccess is Read
C19_Witness ==
  /\ last.op = "analyzeInstruction"
  /\ last.instr.op \in {"begin_access", "begin_unpaired_access"}
  /\ last.instr.enforcement = "Static"
  /\ last.instr.accessKind = Modify
  /\ summaries[last.self].unidentifiedAccess = Read

\* an instruction that is no begin-access was scanned into a summary that
\* holds an entry
C19_WitnessOther ==
  /\ last.op = "analyzeInstruction"
  /\ last.instr.op \notin {"begin_access", "begin_unpaired_access"}
  /\ DOMAIN summaries[last.self].storageAccessMap # {}

\* C20: argument resolution (getCallerArg): for parameter index p at a full
\* apply with n direct arguments, the result is direct argument p when
\* p < n; otherwise, if the callee origin is a partial application with
\* first-applied callee index k and m captured arguments and the offset
\* p - k is in range (0 <= p - k < m), the result is captured argument
\* p - k; in every other case the result is 'no value'.
C20_ArgumentResolution ==
  lookup.called =>
    LET p == lookup.paramIndex
        n == Len(lookup.fullApply.args)
        pai == lookup.fullApply.pai
        k == pai.first
        m == Len(pai.args)
    IN /\ p < n => lookup.result = lookup.fullApply.args[p + 1]
       /\ (p >= n /\ pai.present /\ p >= k /\ p - k < m)
            => lookup.result = pai.args[p - k + 1]
       /\ (p >= n /\ ~(pai.present /\ p >= k /\ p - k < m))
            => lookup.result = NoValue

\* a parameter beyond the direct arguments was resolved to the second
\* captured argument of a partial application whose first captured argument
\* stands for parameter 1
C20_Witness ==
  /\ lookup.called
  /\ lookup.paramIndex = 2
  /\ Len(lookup.fullApply.args) = 1
  /\ lookup.fullApply.pai.present
  /\ lookup.fullApply.pai.first = 1
  /\ Len(lookup.fullApply.pai.args) = 2
  /\ lookup.fullApply.pai.args[1] # lookup.fullApply.pai.args[2]
  /\ lookup.result = lookup.fullApply.pai.args[2]

\* a parameter beyond the captured arguments was resolved to no value
C20_WitnessOutOfRange ==
  /\ lookup.called
  /\ lookup.fullApply.pai.present
  /\ lookup.paramIndex >= Len(lookup.fullApply.args)
  /\ lookup.paramIndex - lookup.fullApply.pai.first >= Len(lookup.fullApply.pai.args)
  /\ Len(lookup.fullApply.pai.args) > 0
  /\ lookup.result = NoValue

\* the caller key a callee key T stands for at the call: none for the
\* callee's Stack and Box storage and for a parameter without an argument, the
\* global itself, the class field rebuilt on the argument that holds the
\* object, and the storage the argument of a parameter comes from
CallerKeys(T, fullApply) ==
  CASE T.kind \in {"Stack", "Box"} -> {}
    [] T.kind = "Global" -> {T}
    [] T.kind = "Class" ->
         IF T.value.op = "arg" /\ ResolvedArg(fullApply, T.value.n) # NoValue
         THEN {ClassStorage(ResolvedArg(fullApply, T.value.n), T.proj)}
         ELSE {T}
    [] T.kind = "Argument" ->
         LET v == ResolvedArg(fullApply, T.index)
         IN CASE v.op = "none" -> {}
              [] v.op = "arg" -> {ArgumentStorage(v.n)}
              [] v.op = "alloc_stack" -> {StackStorage(v)}
              [] v.op = "alloc_box" -> {BoxStorage(v)}
              [] v.op = "global_addr" -> {GlobalStorage(v.n)}
              [] OTHER -> {}
    [] OTHER -> {}

\* the parameters i of the callee whose key Argument(i) is in callee and that
\* have no argument at the call
UnresolvedArguments(callee, fullApply) ==
  {i \in ParamIndices :
     /\ ArgumentStorage(i) \in DOMAIN callee.storageAccessMap
     /\ ResolvedArg(fullApply, i) = NoValue}

\* C21: unresolvable argument demotion: when a callee entry is keyed
\* Argument(i) and no argument of the call stands for parameter i,
\* mergeFromApply adds no key to the caller's map for that entry (every new
\* key is the translation of another callee entry) and joins the entry's
\* access kind into the caller's unidentifiedAccess: afterwards the slot is
\* set, and it is Modify if the callee entry was Modify.
C21_UnresolvedDemotion ==
  [][(last'.op = "mergeFromApply") =>
       LET callee == summaries[last'.other]
           before == summaries[last'.self]
           after == summaries'[last'.self]
       IN \A i \in UnresolvedArguments(callee, last'.apply) :
            /\ (DOMAIN after.storageAccessMap) \ (DOMAIN before.storageAccessMap)
                 \subseteq UNION {CallerKeys(T, last'.apply) :
                                    T \in (DOMAIN callee.storageAccessMap) \ {ArgumentStorage(i)}}
            /\ after.unidentifiedAccess # None
            /\ callee.storageAccessMap[ArgumentStorage(i)].accessKind = Modify
                 => after.unidentifiedAccess = Modify
            /\ before.unidentifiedAccess = Modify => after.unidentifiedAccess = Modify]_vars

\* the callee holds Argument(i) -> Modify and no unidentified access, the
\* call has no argument for parameter i, and the merge left the caller with
\* unidentifiedAccess = Modify and without a key Argument(i)
C21_Witness ==
  /\ last.op = "mergeFromApply"
  /\ last.self # last.other
  /\ last.ret
  /\ summaries[last.other].unidentifiedAccess = None
  /\ \E i \in UnresolvedArguments(summaries[last.other], last.apply) :
       /\ summaries[last.other].storageAccessMap[ArgumentStorage(i)].accessKind = Modify
       /\ ArgumentStorage(i) \notin DOMAIN summaries[last.self].storageAccessMap
  /\ summaries[last.self].unidentifiedAccess = Modify

\* the Class keys of a summary
ClassKeys(S) == {T \in DOMAIN S.storageAccessMap : T.kind = "Class"}

\* the object of the Class key T is a parameter of the callee that has an
\* argument at the call
ObjectResolved(T, fullApply) ==
  T.value.op = "arg" /\ ResolvedArg(fullApply, T.value.n) # NoValue

\* C22: class identity translation: for a callee entry keyed Class(obj, path),
\* if obj is the callee's parameter N and the call has the argument v for N,
\* the caller receives the key Class(v, path) with the same path; if obj is
\* no parameter or has no argument, the caller receives Class(obj, path)
\* unchanged: the entry is neither dropped nor demoted to Unidentified.
C22_ClassTranslation ==
  [][(last'.op = "mergeFromApply") =>
       LET callee == summaries[last'.other]
           before == summaries[last'.self]
           after == summaries'[last'.self]
       IN /\ \A T \in ClassKeys(callee) :
               IF ObjectResolved(T, last'.apply)
               THEN ClassStorage(ResolvedArg(last'.apply, T.value.n), T.proj)
                      \in DOMAIN after.storageAccessMap
               ELSE T \in DOMAIN after.storageAccessMap
          /\ (/\ DOMAIN callee.storageAccessMap = ClassKeys(callee)
              /\ callee.unidentifiedAccess = None)
               => /\ after.unidentifiedAccess = before.unidentifiedAccess
                  /\ DOMAIN after.storageAccessMap =
                       DOMAIN before.storageAccessMap
                         \cup UNION {CallerKeys(T, last'.apply) : T \in ClassKeys(callee)}]_vars

\* the callee holds a field of the object in its parameter 0, the call passes
\* v for that parameter, and the caller holds that field of v and no field
\* of the callee's parameter
C22_Witness ==
  /\ last.op = "mergeFromApply"
  /\ last.self # last.other
  /\ last.ret
  /\ \E T \in ClassKeys(summaries[last.other]) :
       /\ ObjectResolved(T, last.apply)
       /\ T.proj = 1
       /\ ClassStorage(ResolvedArg(last.apply, T.value.n), 1)
            \in DOMAIN summaries[last.self].storageAccessMap
       /\ T \notin DOMAIN summaries[last.self].storageAccessMap

\* the callee holds a field of an object it allocated and a field of the
\* object in a parameter that has no argument at the call; the caller holds
\* both keys as they are in the callee
C22_WitnessUnchanged ==
  /\ last.op = "mergeFromApply"
  /\ last.self # last.other
  /\ last.ret
  /\ \E T, U \in ClassKeys(summaries[last.other]) :
       /\ T.value.op = "alloc_ref"
       /\ U.value.op = "arg" /\ ~ObjectResolved(U, last.apply)
       /\ {T, U} \subseteq DOMAIN summaries[last.self].storageAccessMap
  /\ summaries[last.self].unidentifiedAccess = None

\* the Nested keys of a summary
NestedKeys(S) == {T \in DOMAIN S.storageAccessMap : T.kind = "Nested"}

KeysTranslatedTo(s, callee, fullApply) ==
  {T \in DOMAIN callee.storageAccessMap : s \in CallerKeys(T, fullApply)}

\* the join of a non-empty set of records: Modify if one of them is Modify,
\* the flag if all of them carry it
JoinOfRecords(records) ==
  [accessKind |-> IF \E r \in records : r.accessKind = Modify THEN Modify ELSE Read,
   noNestedConflict |-> \A r \in records : r.noNestedConflict]

\* the join of a set of access kinds into a slot: unset if there is none
JoinOfKinds(kinds) ==
  IF Modify \in kinds THEN Modify ELSE IF Read \in kinds THEN Read ELSE None

\* the summary a call-site merge of callee must leave in a receiver that was
\* before: every callee entry, as it is in callee, joined under its caller key
MergedAtCall(before, callee, fullApply) ==
  LET keys == DOMAIN before.storageAccessMap
                \cup UNION {CallerKeys(T, fullApply) : T \in DOMAIN callee.storageAccessMap}
  IN [storageAccessMap |->
        [s \in keys |->
           JoinOfRecords(
             {callee.storageAccessMap[T] : T \in KeysTranslatedTo(s, callee, fullApply)}
               \cup (IF s \in DOMAIN before.storageAccessMap
                     THEN {before.storageAccessMap[s]} ELSE {}))],
      unidentifiedAccess |->
        JoinOfKinds(({before.unidentifiedAccess, callee.unidentifiedAccess} \ {None})
                      \cup {callee.storageAccessMap[ArgumentStorage(i)].accessKind :
                              i \in UnresolvedArguments(callee, fullApply)})]

\* C24: snapshot discipline in self-merge: when the receiver and other are the
\* same summary and the transform maps existing keys to new keys, one
\* mergeAccesses call transforms exactly the entries, with the record values,
\* that were present when the call started: the result is the receiver as it
\* was, joined with the translation of each of its entries as it was; what
\* the call inserts or upgrades is not transformed or read again by it.
C24_SnapshotSelfMerge ==
  [][(last'.op = "mergeFromApply" /\ last'.self = last'.other) =>
       summaries'[last'.self] =
         MergedAtCall(summaries[last'.self], summaries[last'.self], last'.apply)]_vars

\* a function merged its own summary at a self-recursive call where key T
\* (Modify) translates to the existing key s (Read) and s translates to a new
\* key u: afterwards s is Modify and u holds the Read record s had
C24_Witness ==
  /\ last.op = "mergeFromApply"
  /\ last.self = last.other
  /\ last.ret
  /\ LET map == summaries[last.self].storageAccessMap
     IN \E T, s, u \in DOMAIN map :
          /\ T # s /\ s # u /\ T # u
          /\ CallerKeys(T, last.apply) = {s}
          /\ CallerKeys(s, last.apply) = {u}
          /\ map[T].accessKind = Modify
          /\ map[s].accessKind = Modify
          /\ map[u].accessKind = Read
          /\ \E m \in last.merges : m.lhs.accessKind = Read /\ m.out = map[s]

\* a merge along any of the call edges, in any iteration order, returns false
Stable ==
  \A e \in 1 .. Len(CallEdges) :
    LET F == CallEdges[e].caller
        fullApply == CallEdges[e].apply
        O == fullApply.callee
    IN \A order \in Perms(DOMAIN summaries[O].storageAccessMap) :
         LET r == mergeAccesses(summaries[F], summaries[O],
                                ApplyEntries(summaries[O], order, fullApply), F = O)
         IN ~r.changed /\ r.summary = summaries[F]

\* C25: fixed-point convergence: applying mergeFromApply along the call edges
\* (self-recursive and mutually recursive edges included) round after round,
\* until a full round in which every merge returns false, always terminates,
\* and in the state reached every further merge along any of the edges
\* returns false.
C25_Converges ==
  /\ <>(round.phase = "done")
  /\ [](round.phase = "done" => Stable)

\* the iteration ended after access records had crossed the self-recursive
\* and the mutually recursive edges: f holds what g's parameters stand for
C25_Witness ==
  /\ round.phase = "done"
  /\ GlobalStorage(0) \in DOMAIN summaries["f"].storageAccessMap
  /\ ArgumentStorage(0) \in DOMAIN summaries["f"].storageAccessMap
  /\ summaries["g"].unidentifiedAccess = Modify
  /\ \E s \in DOMAIN summaries["g"].storageAccessMap :
       s.kind = "Class" /\ s.value.fn = "g" /\ s.value.op = "arg"
  /\ \E s \in DOMAIN summaries["f"].storageAccessMap : s.kind = "Class"

\* the record at is at least the record r: Modify if r is, and it carries
\* the flag only if r does
Covers(at, r) ==
  /\ r.accessKind = Modify => at.accessKind = Modify
  /\ at.noNestedConflict => r.noNestedConflict

\* the slot is set and at least the access kind
SlotCovers(slot, kind) ==
  /\ slot # None
  /\ kind = Modify => slot = Modify

\* C26: no access is lost across a call edge: after
\* caller.mergeFromApply(callee, apply), for every callee entry (T, r) with T
\* not of kind Stack or Box, either the caller has the key T translates to,
\* with an accessKind at least r's and a noNestedConflict that implies r's,
\* or the caller's unidentifiedAccess is set and at least r's accessKind; if
\* the callee's unidentifiedAccess is set, the caller's is set and at least
\* as strong.  Only Stack and Box entries contribute nothing.
C26_NoAccessLost ==
  [][(last'.op = "mergeFromApply") =>
       LET callee == summaries[last'.other]
           before == summaries[last'.self]
           after == summaries'[last'.self]
           locals == {T \in DOMAIN callee.storageAccessMap : T.kind \in {"Stack", "Box"}}
       IN /\ \A T \in (DOMAIN callee.storageAccessMap) \ locals :
               LET r == callee.storageAccessMap[T]
               IN \/ \E s \in CallerKeys(T, last'.apply) :
                       /\ s \in DOMAIN after.storageAccessMap
                       /\ Covers(after.storageAccessMap[s], r)
                  \/ /\ CallerKeys(T, last'.apply) = {}
                     /\ SlotCovers(after.unidentifiedAccess, r.accessKind)
          /\ callee.unidentifiedAccess # None
               => SlotCovers(after.unidentifiedAccess, callee.unidentifiedAccess)
          /\ (DOMAIN callee.storageAccessMap = locals /\ callee.unidentifiedAccess = None)
               => (after = before /\ ~last'.ret)]_vars

\* the callee's Modify record without the flag met, under its caller key, a
\* Read record with the flag: the caller's record is now Modify without it
C26_Witness ==
  /\ last.op = "mergeFromApply"
  /\ last.self # last.other
  /\ last.ret
  /\ \E T \in DOMAIN summaries[last.other].storageAccessMap :
       \E s \in CallerKeys(T, last.apply) :
         /\ s # T
         /\ summaries[last.other].storageAccessMap[T]
              = [accessKind |-> Modify, noNestedConflict |-> FALSE]
         /\ s \in DOMAIN summaries[last.self].storageAccessMap
         /\ summaries[last.self].storageAccessMap[s]
              = [accessKind |-> Modify, noNestedConflict |-> FALSE]
         /\ \E m \in last.merges :
              m.lhs = [accessKind |-> Read, noNestedConflict |-> TRUE] /\ m.changed

\* the callee holds a Stack key and a Modify entry of a parameter without
\* argument: the caller got no key and its unidentifiedAccess is Modify
C26_WitnessDemoted ==
  /\ last.op = "mergeFromApply"
  /\ last.self # last.other
  /\ last.ret
  /\ \E T, U \in DOMAIN summaries[last.other].storageAccessMap :
       /\ T.kind = "Stack"
       /\ U.kind = "Argument" /\ CallerKeys(U, last.apply) = {}
       /\ summaries[last.other].storageAccessMap[U].accessKind = Modify
  /\ DOMAIN summaries[last.self].storageAccessMap = {}
  /\ summaries[last.self].unidentifiedAccess = Modify

\* in this step the slot of F does not go from set to unset or from Modify
\* to Read
SlotMonotone(F) ==
  /\ summaries[F].unidentifiedAccess # None => summaries'[F].unidentifiedAccess # None
  /\ summaries[F].unidentifiedAccess = Modify => summaries'[F].unidentifiedAccess = Modify

\* C27 as stated: unidentifiedAccess is monotone over the whole life of a
\* summary: across any sequence of summarizeFunction (called whenever the
\* map is empty), analyzeInstruction, mergeFrom and mergeFromApply, the slot
\* never goes from set to unset and never from Modify to Read.
C27_SlotMonotone ==
  [][\A F \in Funcs : SlotMonotone(F)]_vars

\* the recorded call is summarizeFunction on a summary whose slot is set
SummarizeOnSetSlot(call) ==
  /\ call.op = "summarizeFunction"
  /\ summaries[call.self].unidentifiedAccess # None

\* C27 as amended: across analyzeInstruction, mergeFrom, mergeFromApply and
\* the summarizeFunction call made on a summary whose slot is still unset,
\* the slot never goes from set to unset and never from Modify to Read; and
\* no call ever unsets it.
C27_SlotMonotoneUnlessResummarized ==
  [][/\ (last'.op # "none" /\ ~SummarizeOnSetSlot(last')) =>
          \A F \in Funcs : SlotMonotone(F)
     /\ \A F \in Funcs :
          summaries[F].unidentifiedAccess # None
            => summaries'[F].unidentifiedAccess # None]_vars

\* a summary whose slot is Read was merged into a summary whose slot is
\* Modify, and the slot is still Modify
C27_Witness ==
  /\ last.op \in {"mergeFrom", "mergeFromApply"}
  /\ last.self # last.other
  /\ summaries[last.other].unidentifiedAccess = Read
  /\ summaries[last.self].unidentifiedAccess = Modify
  /\ ~last.ret

\* the caller keys on which two or more keys of callee meet at the call
CollidingKeys(callee, fullApply) ==
  {s \in UNION {CallerKeys(T, fullApply) : T \in DOMAIN callee.storageAccessMap} :
     Cardinality(KeysTranslatedTo(s, callee, fullApply)) >= 2}

\* C28: key collision under translation: when two or more distinct callee
\* keys translate to the same caller identity at one call site, the caller's
\* storageAccessMap holds a single entry for that identity, whose accessKind
\* is Modify iff the caller's prior record or any of the colliding callee
\* records is Modify and whose noNestedConflict is the AND of all of them,
\* whatever the order in which the callee entries are visited.
C28_KeyCollision ==
  [][last'.op = "mergeFromApply" =>
       LET before == summaries[last'.self]
           callee == summaries[last'.other]
           after == summaries'[last'.self].storageAccessMap
       IN \A s \in CollidingKeys(callee, last'.apply) :
            LET colliding == {callee.storageAccessMap[T] :
                                T \in KeysTranslatedTo(s, callee, last'.apply)}
                prior == IF s \in DOMAIN before.storageAccessMap
                         THEN {before.storageAccessMap[s]} ELSE {}
            IN /\ s \in DOMAIN after
               /\ after[s].accessKind = Modify
                    <=> \E r \in colliding \cup prior : r.accessKind = Modify
               /\ after[s].noNestedConflict
                    <=> \A r \in colliding \cup prior : r.noNestedConflict]_vars

\* two callee keys, one Read and one Modify, one annotated and one not, met
\* on one key the caller did not have: it is Modify, without the flag
C28_Witness ==
  /\ last.op = "mergeFromApply"
  /\ last.self # last.other
  /\ \E s \in CollidingKeys(summaries[last.other], last.apply) :
       LET from == KeysTranslatedTo(s, summaries[last.other], last.apply)
           map == summaries[last.other].storageAccessMap
       IN /\ \E T, U \in from :
               /\ map[T].accessKind = Read /\ map[U].accessKind = Modify
               /\ map[T].noNestedConflict # map[U].noNestedConflict
          /\ summaries[last.self].storageAccessMap[s] =
               [accessKind |-> Modify, noNestedConflict |-> FALSE]
          /\ last.merges # {}

\* the summary self.mergeFrom(other) leaves in self when other's map is
\* iterated in order
MergeFromResult(self, other, order) ==
  mergeAccesses(self, other, IdentityEntries(other, order), FALSE).summary

\* C29: merge order does not matter: for summaries A, B and receiver X (all
\* distinct), X.mergeFrom(A) followed by X.mergeFrom(B) yields the same
\* storageAccessMap and unidentifiedAccess as X.mergeFrom(B) followed by
\* X.mergeFrom(A), whatever the iteration order of either source map.
C29_MergeOrder ==
  [][(last'.op = "mergeFrom" /\ last'.self # last'.other) =>
       LET X == last'.self
           A == summaries[last'.other]
       IN \A O \in Funcs \ {last'.self, last'.other} :
            LET B == summaries[O]
            IN \A orderA \in Perms(DOMAIN A.storageAccessMap) :
                 \A orderB, orderB2 \in Perms(DOMAIN B.storageAccessMap) :
                   MergeFromResult(summaries'[X], B, orderB)
                     = MergeFromResult(MergeFromResult(summaries[X], B, orderB2),
                                       A, orderA)]_vars

\* X.mergeFrom(A) was called and changed X, where a third summary B holds a
\* key of A with another access kind and another flag
C29_Witness ==
  /\ last.op = "mergeFrom"
  /\ last.self # last.other
  /\ last.ret
  /\ \E O \in Funcs \ {last.self, last.other} :
       LET A == summaries[last.other]
           B == summaries[O]
       IN \E s \in DOMAIN A.storageAccessMap \cap DOMAIN B.storageAccessMap :
            /\ A.storageAccessMap[s].accessKind # B.storageAccessMap[s].accessKind
            /\ A.storageAccessMap[s].noNestedConflict # B.storageAccessMap[s].noNestedConflict

\* C30: getCallerArg never indexes out of range: with parameter indices and
\* counts as 32-bit unsigned integers, when the parameter index p is at
\* least the number of direct arguments and smaller than the partial
\* application's first-applied callee index k, the subtraction p - k wraps
\* modulo 2^32 to a value that is not below the captured-argument count, and
\* the function returns 'no value' rather than a captured argument.
C30_WrappedOffset ==
  lookup.called =>
    LET p == lookup.paramIndex
        n == Len(lookup.fullApply.args)
        pai == lookup.fullApply.pai
        k == pai.first
        m == Len(pai.args)
        appliedIndex == Unsigned(p - k)
    IN (pai.present /\ p >= n /\ p < k) =>
         /\ appliedIndex = [hi |-> HalfWord - 1, lo |-> HalfWord - (k - p)]
         /\ ~UnsignedLess(appliedIndex, Unsigned(m))
         /\ lookup.result = NoValue

\* parameter 0 was looked up at a call without direct arguments whose
\* partial application captured two values, the first for parameter 1: the
\* result is no value
C30_Witness ==
  /\ lookup.called
  /\ lookup.paramIndex = 0
  /\ lookup.fullApply.args = << >>
  /\ lookup.fullApply.pai.present
  /\ lookup.fullApply.pai.first = 1
  /\ Len(lookup.fullApply.pai.args) = 2
  /\ lookup.result = NoValue

====
